---- MODULE Spec2Model ----
(***************************************************************************)
(* Pairs-trading backtest: the signal state machine of TradingModel        *)
(* (make_decisions_helper) and its execution translator (trade_helper),    *)
(* modelled from src/trading_model.py, and the Account ledger              *)
(* (update_date, make_transaction, liquidate, update_capital), modelled    *)
(* from src/simulation.py.                                                 *)
(*                                                                         *)
(* Numbers.  Python floats are modelled by exact rationals <<n, d>> in     *)
(* lowest terms with d > 0; the float NaN is <<0, 0>>.  Arithmetic         *)
(* propagates NaN and every ordered comparison with NaN is false, as in    *)
(* IEEE-754 / numpy.  Rounding error is not modelled.                      *)
(*                                                                         *)
(* Close prices.  The spread takes the natural logarithm of a close        *)
(* price; the model restricts close prices to NaN and the integer powers   *)
(* e^k, stored as [nan, exp], so that np_log is computed and not assumed.  *)
(*                                                                         *)
(* Dates.  'YYYY-MM-DD' strings are compared after pd.to_datetime, which   *)
(* preserves their order; a date is modelled by its day number.            *)
(***************************************************************************)
EXTENDS Integers, Sequences, FiniteSets, TLC

(* ------------------------------ bounds --------------------------------- *)

\* Day numbers run over 1..MaxDate.
MaxDate == 2

\* Longest decision list handed to trade_helper.
MaxDecisions == 2

\* The account's calendar runs over the days 1..MaxDay.
MaxDay == 3

\* Longest order batch handed to make_transaction.
MaxOrders == 2

\* Most rows make_transaction lets the transaction log grow to; a batch that
\* would exceed it is not submitted, and liquidate is not called on a longer
\* log.
MaxRows == 3

\* Most rows the capital log holds.
MaxMarks == 2

\* Most rows the asset snapshot log holds; update_capital is not called when
\* it could exceed either bound.
MaxSnapshots == 3

(* ----------------------------- rationals ------------------------------- *)

NaN == <<0, 0>>

IsNaN(x) == x[2] = 0

Abs(n) == IF n < 0 THEN -n ELSE n

RECURSIVE Gcd(_, _)
Gcd(a, b) == IF b = 0 THEN a ELSE Gcd(b, a % b)

\* The rational n/d in lowest terms with a positive denominator (d # 0).
Norm(n, d) ==
    LET g == Gcd(Abs(n), Abs(d))
        s == IF d < 0 THEN -1 ELSE 1
    IN  <<(s * n) \div g, (s * d) \div g>>

Rat(n) == <<n, 1>>

Frac(n, d) == Norm(n, d)

Zero == Rat(0)

One == Rat(1)

RNeg(a) == IF IsNaN(a) THEN NaN ELSE <<-a[1], a[2]>>

RAdd(a, b) ==
    IF IsNaN(a) \/ IsNaN(b) THEN NaN
    ELSE Norm(a[1] * b[2] + b[1] * a[2], a[2] * b[2])

RSub(a, b) == RAdd(a, RNeg(b))

RMul(a, b) ==
    IF IsNaN(a) \/ IsNaN(b) THEN NaN
    ELSE Norm(a[1] * b[1], a[2] * b[2])

\* Division; the divisors of the model (1 + alpha, open prices) are never 0.
RDiv(a, b) ==
    IF IsNaN(a) \/ IsNaN(b) \/ b[1] = 0 THEN NaN
    ELSE Norm(a[1] * b[2], a[2] * b[1])

\* Ordered comparisons: false as soon as one side is NaN.
RLt(a, b) == ~IsNaN(a) /\ ~IsNaN(b) /\ a[1] * b[2] < b[1] * a[2]

RLe(a, b) == ~IsNaN(a) /\ ~IsNaN(b) /\ a[1] * b[2] <= b[1] * a[2]

RGt(a, b) == RLt(b, a)

RGe(a, b) == RLe(b, a)

(* --------------------------- configuration ----------------------------- *)

\* PERMNOs of the traded instruments.
PERMNOs == {1, 2, 3}

\* self.pairs: the pair list given to the constructor, in order.  The two
\* pairs share instrument 2.
pairs == << <<1, 2>>, <<3, 2>> >>

PairSet == {pairs[i] : i \in 1..Len(pairs)}

\* Index of a pair in self.pairs.
PairIndex(pair) == CHOOSE i \in 1..Len(pairs) : pairs[i] = pair

\* (alpha, beta) values offered to the constructor.
Coeffs == {<<Rat(1), Rat(0)>>, <<Rat(2), Rat(1)>>}

\* Entry thresholds and stop-loss levels offered to the constructor: positive,
\* the stop-loss above the threshold.  With close prices e^0, e^1, e^3, e^5
\* the spread of a pair with coefficients (1, 0) takes every integer value
\* from -5 to 5: below, at, between and above 0, the thresholds and the
\* stop-loss.
Thresholds == {Rat(1), Rat(2)}

StopLosses == {Rat(4)}

\* Dollar exposures per trade offered to the constructor.
Dollars == {Rat(1), Rat(15)}

\* Close prices: NaN (no row for the date) or e^k.
ClosePrice(k) == [nan |-> FALSE, exp |-> k]

NaNPrice == [nan |-> TRUE, exp |-> 0]

ClosePrices == {NaNPrice} \cup {ClosePrice(k) : k \in {0, 1, 3, 5}}

\* Open prices handed to trade_helper: positive numbers.
OpenPrices == {Rat(1), Rat(2)}

Dates == 1..MaxDate

\* The days the account is asked to move to, or is built on.
Days == 1..MaxDay

\* The NYSE calendar: the odd days are trading days, the even days are not.
IsTradingDay(day) == day % 2 = 1

\* Start dates offered to the Account constructor: a trading day and a day
\* that is not one.
StartDates == {1, 2}

\* Starting cash offered to the Account constructor.
StartCash == {Rat(1)}

\* Order quantities handed to make_transaction: a sale, an empty order, a
\* purchase.
OrderQuantities == {Rat(-1), Rat(0), Rat(1)}

\* The instruments named in the orders handed to make_transaction.
OrderPERMNOs == {1, 2}

\* The last day of the database.
LastDay == 13

\* The days of the database.
CalendarDays == 1..LastDay

\* The last day for which data/<PERMNO>.csv has a row: instrument 3 leaves
\* the market first.
FinalDay(PERMNO) == IF PERMNO = 3 THEN 9 ELSE LastDay

\* The instrument has a row for the day: no instrument has a row on a day
\* that is not a trading day, or after its final day.
HasRow(PERMNO, day) == IsTradingDay(day) /\ day <= FinalDay(PERMNO)

\* get_PERMNO(PERMNO).index: the days of the instrument's rows, ascending
\* (sort_index).
Index(PERMNO) ==
    LET S == {day \in 1..FinalDay(PERMNO) : HasRow(PERMNO, day)}
    IN  [i \in 1..Cardinality(S) |->
            CHOOSE day \in S : Cardinality({e \in S : e <= day}) = i]

\* The DlyOpen column of the database, as the list of rows that
\* get_metrics(PERMNO, ("O"), day, day) returns: empty when the instrument
\* has no row for the day, else one value, which may be NaN.  Instrument 1
\* opens at 1 on days 1 and 7 and at 2 otherwise, instrument 2 opens at 2 on
\* day 1, has a NaN open on day 3 and opens at 1 later, instrument 3 opens
\* at 1/2.
DlyOpen(PERMNO, day) ==
    IF ~HasRow(PERMNO, day)
    THEN << >>
    ELSE CASE PERMNO = 1 -> << IF day \in {1, 7} THEN Rat(1) ELSE Rat(2) >>
           [] PERMNO = 2 -> << IF day = 1 THEN Rat(2)
                               ELSE IF day = 3 THEN NaN ELSE Rat(1) >>
           [] OTHER      -> << Frac(1, 2) >>

\* The DlyClose column of the database, as the list of rows that
\* get_metrics(PERMNO, ("C"), day, day) returns.  Instrument 2 closes at e;
\* instrument 1 closes at e^1, e^4, e^1, e^-2, e^6 on days 1, 3, 5, 7, 9 and
\* at e later; instrument 3 closes at e^4 and has a NaN close on day 5.
DlyClose(PERMNO, day) ==
    IF ~HasRow(PERMNO, day)
    THEN << >>
    ELSE CASE PERMNO = 1 -> << ClosePrice(CASE day = 3 -> 4
                                            [] day = 7 -> -2
                                            [] day = 9 -> 6
                                            [] OTHER -> 1) >>
           [] PERMNO = 2 -> << ClosePrice(1) >>
           [] OTHER      -> << IF day = 5 THEN NaNPrice ELSE ClosePrice(4) >>

(* -------------------------------- state -------------------------------- *)

VARIABLES
    OLS_coeff,        \* pair -> <<alpha, beta>>
    threshold,        \* pair -> entry threshold
    stop_loss,        \* pair -> stop-loss level
    dollar_per_trade, \* dollar exposure per trade
    positions,        \* pair -> 0 (flat), 1 (long), -1 (short)
    quantities,       \* pair -> <<q1, q2>>, the last executed leg quantities
    date,             \* Account.date: the current simulation day
    buying_power,     \* Account.buying_power: the cash balance
    assets,           \* Account.assets: <<PERMNO, quantity>> entries in the
                      \* insertion order of the dict
    capital,          \* Account.capital
    transaction_history, \* rows [timestamp, PERMNO, quantity, price]
    capital_history,  \* rows [timestamp, capital]
    asset_history,    \* rows [timestamp, PERMNO, quantity, value]
    call,             \* the caller's view of the last helper call:
                      \* its arguments, the object's state before it, its result
    frame             \* the calling script's frame: its position and the
                      \* locals it keeps from one call to the next

vars == <<OLS_coeff, threshold, stop_loss, dollar_per_trade,
          positions, quantities, date, buying_power, assets, capital,
          transaction_history, capital_history, asset_history, call, frame>>

params == <<OLS_coeff, threshold, stop_loss, dollar_per_trade>>

\* The variables of the TradingModel object.
model == <<params, positions, quantities>>

\* The variables of the Account object.
account == <<date, buying_power, assets, capital, transaction_history,
             capital_history, asset_history>>

Idle == [op |-> "idle"]

\* The frame of a caller that keeps nothing between its calls.
NoFrame == [pc |-> "none"]

\* TradingModel.__init__(pairs, OLS_coeff, threshold, stop_loss,
\* dollar_per_trade) and Account.__init__(start_date, buying_power).
Init ==
    /\ OLS_coeff \in [PairSet -> Coeffs]
    /\ threshold \in [PairSet -> Thresholds]
    /\ stop_loss \in [PairSet -> StopLosses]
    /\ dollar_per_trade \in Dollars
    /\ positions = [pair \in PairSet |-> 0]
    /\ quantities = [pair \in PairSet |-> <<Zero, Zero>>]
    /\ date \in StartDates
    /\ buying_power \in StartCash
    /\ assets = << >>
    /\ capital = buying_power
    /\ transaction_history = << >>
    /\ capital_history = << >>
    /\ asset_history = << >>
    /\ call = Idle
    /\ frame = NoFrame

(* ----------------------------- calc_spreads ---------------------------- *)

\* np.log on the modelled close prices: log(e^k) = k, log(NaN) = NaN.
np_log(price) == IF price.nan THEN NaN ELSE Rat(price.exp)

\* log(close1) - alpha * log(close2) - beta
Spread(coeff, close1, close2) ==
    RSub(RSub(np_log(close1), RMul(coeff[1], np_log(close2))), coeff[2])

calc_spreads(close_prices) ==
    [pair \in PairSet |->
        Spread(OLS_coeff[pair], close_prices[pair[1]], close_prices[pair[2]])]

(* ------------------------ make_decisions_helper ------------------------ *)

\* Variant of Delisted: the boundary date itself still counts as live.
DelistedStrict(close_date, last_close_dates, pair) ==
    \/ close_date > last_close_dates[pair[1]]
    \/ close_date > last_close_dates[pair[2]]

\* Line 136: the date has reached the last observed date of one of the legs.
Delisted(close_date, last_close_dates, pair) ==
    \/ close_date >= last_close_dates[pair[1]]
    \/ close_date >= last_close_dates[pair[2]]

\* Variant of ExitLong: the zero bound is exclusive.
ExitLongStrict(spread, sl) == RGt(spread, Zero) \/ RLe(spread, RNeg(sl))

\* Variant of ExitLong: "not below zero" in place of "at or above zero",
\* which differs on NaN.
ExitLongNotBelow(spread, sl) == ~RLt(spread, Zero) \/ RLe(spread, RNeg(sl))

\* Line 146: a long position is closed at or above zero, or at or below the
\* negated stop-loss.
ExitLong(spread, sl) == RGe(spread, Zero) \/ RLe(spread, RNeg(sl))

\* Line 152: a short position is closed at or below zero, or at or above the
\* stop-loss.
ExitShort(spread, sl) == RLe(spread, Zero) \/ RGe(spread, sl)

\* Variant of EnterShort: the threshold bound is inclusive.
EnterShortInclusive(spread, th, sl) == RGe(spread, th) /\ RLt(spread, sl)

\* Variant of EnterShort: no stop-loss guard.
EnterShortNoStop(spread, th, sl) == RGt(spread, th)

\* Line 158: a short position is opened strictly inside (threshold, stop_loss).
EnterShort(spread, th, sl) == RGt(spread, th) /\ RLt(spread, sl)

\* Variant of EnterLong: no stop-loss bound on the entry.
EnterLongNoStop(spread, th, sl) == RLt(spread, RNeg(th))

\* Line 163: a long position is opened strictly inside (-stop_loss, -threshold).
EnterLong(spread, th, sl) == RLt(spread, RNeg(th)) /\ RGt(spread, RNeg(sl))

\* Variant of DelistedBody: the exit is emitted for a flat pair too.
DelistedBodyAlways(pair, pos) ==
    [pos |-> 0, out |-> << <<pair, 0>> >>]

\* Variant of DelistedBody: the exit is emitted but the position is kept.
DelistedBodyNoReset(pair, pos) ==
    IF pos # 0
    THEN [pos |-> pos, out |-> << <<pair, 0>> >>]
    ELSE [pos |-> pos, out |-> << >>]

\* Lines 137-140: the forced exit of a delisted pair.
DelistedBody(pair, pos) ==
    IF pos # 0
    THEN [pos |-> 0, out |-> << <<pair, 0>> >>]
    ELSE [pos |-> pos, out |-> << >>]

\* Variant of LiveBody: the entry test is an else-branch of the exit tests, so
\* a pair that has just been closed is not re-evaluated.
LiveBodyElif(pair, pos, spread, th, sl) ==
    IF pos = 1
    THEN IF ExitLong(spread, sl)
         THEN [pos |-> 0, out |-> << <<pair, 0>> >>]
         ELSE [pos |-> pos, out |-> << >>]
    ELSE IF pos = -1
    THEN IF ExitShort(spread, sl)
         THEN [pos |-> 0, out |-> << <<pair, 0>> >>]
         ELSE [pos |-> pos, out |-> << >>]
    ELSE IF EnterShort(spread, th, sl)
    THEN [pos |-> -1, out |-> << <<pair, -1>> >>]
    ELSE IF EnterLong(spread, th, sl)
    THEN [pos |-> 1, out |-> << <<pair, 1>> >>]
    ELSE [pos |-> pos, out |-> << >>]

\* Lines 143-166: the three consecutive ifs of a live pair.  Each one reads
\* the position the previous one left.
LiveBody(pair, pos, spread, th, sl) ==
    LET a == IF pos = 1 /\ ExitLong(spread, sl)
             THEN [pos |-> 0, out |-> << <<pair, 0>> >>]
             ELSE [pos |-> pos, out |-> << >>]
        b == IF a.pos = -1 /\ ExitShort(spread, sl)
             THEN [pos |-> 0, out |-> Append(a.out, <<pair, 0>>)]
             ELSE a
    IN  IF b.pos = 0
        THEN IF EnterShort(spread, th, sl)
             THEN [pos |-> -1, out |-> Append(b.out, <<pair, -1>>)]
             ELSE IF EnterLong(spread, th, sl)
                  THEN [pos |-> 1, out |-> Append(b.out, <<pair, 1>>)]
                  ELSE b
        ELSE b

\* Lines 136-166: one iteration of the loop over self.pairs.
PairBody(pair, pos, spread, delisted, th, sl) ==
    IF delisted
    THEN DelistedBody(pair, pos)
    ELSE LiveBody(pair, pos, spread, th, sl)

\* Variant of DecideStep: the pair's decisions are put in front of the list.
DecideStepPrepend(acc, i, close_date, spreads, last_close_dates) ==
    LET pair == pairs[i]
        r == PairBody(pair, acc.positions[pair], spreads[pair],
                      Delisted(close_date, last_close_dates, pair),
                      threshold[pair], stop_loss[pair])
    IN  [positions |-> [acc.positions EXCEPT ![pair] = r.pos],
         decisions |-> r.out \o acc.decisions]

\* Lines 135-166: the loop body applied to pairs[i].  acc holds
\* self.positions and the local list decisions as the earlier iterations
\* left them.
DecideStep(acc, i, close_date, spreads, last_close_dates) ==
    LET pair == pairs[i]
        r == PairBody(pair, acc.positions[pair], spreads[pair],
                      Delisted(close_date, last_close_dates, pair),
                      threshold[pair], stop_loss[pair])
    IN  [positions |-> [acc.positions EXCEPT ![pair] = r.pos],
         decisions |-> acc.decisions \o r.out]

\* Lines 135-168: the loop over self.pairs in list order, from pairs[i] on.
RECURSIVE DecideLoop(_, _, _, _, _)
DecideLoop(i, acc, close_date, spreads, last_close_dates) ==
    IF i > Len(pairs)
    THEN acc
    ELSE DecideLoop(i + 1,
                    DecideStep(acc, i, close_date, spreads, last_close_dates),
                    close_date, spreads, last_close_dates)

\* TradingModel.make_decisions_helper(close_date, close_prices, last_close_dates)
make_decisions_helper(close_date, close_prices, last_close_dates) ==
    \E spreads \in {calc_spreads(close_prices)} :
    \E r \in {DecideLoop(1, [positions |-> positions, decisions |-> << >>],
                         close_date, spreads, last_close_dates)} :
        /\ positions' = r.positions
        /\ call' = [op |-> "make_decisions_helper",
                    close_date |-> close_date,
                    close_prices |-> close_prices,
                    last_close_dates |-> last_close_dates,
                    spreads |-> spreads,
                    positions0 |-> positions,
                    quantities0 |-> quantities,
                    decisions |-> r.decisions]
        /\ UNCHANGED <<params, quantities, account>>

(* ----------------------------- trade_helper ---------------------------- *)

\* Variant of Ratio1: the ratio is taken from OLS_coeff[pair][1].
Ratio1FromIntercept(coeff) == RDiv(One, RAdd(One, coeff[2]))

\* Lines 187-188: the leg ratios, from OLS_coeff[pair][0].
Ratio1(coeff) == RDiv(One, RAdd(One, coeff[1]))

Ratio2(coeff) == RDiv(coeff[1], RAdd(One, coeff[1]))

\* Lines 189-190: the leg quantities of an entry.
Quantity1(position, coeff, dollar, open1) ==
    RDiv(RMul(RMul(Rat(position), Ratio1(coeff)), dollar), open1)

\* Variant of Quantity2: the second leg gets the sign of the position.
Quantity2SameSign(position, coeff, dollar, open2) ==
    RDiv(RMul(RMul(Rat(position), Ratio2(coeff)), dollar), open2)

Quantity2(position, coeff, dollar, open2) ==
    RNeg(RDiv(RMul(RMul(Rat(position), Ratio2(coeff)), dollar), open2))

\* Variant of ExitBody: the recorded quantities are not reset.
ExitBodyNoReset(pair, q) ==
    [q |-> q,
     out |-> << <<pair[1], RNeg(q[1])>>, <<pair[2], RNeg(q[2])>> >>]

\* Lines 182-184: an exit negates the recorded quantities q of the pair and
\* resets them.
ExitBody(pair, q) ==
    [q |-> <<Zero, Zero>>,
     out |-> << <<pair[1], RNeg(q[1])>>, <<pair[2], RNeg(q[2])>> >>]

\* Variant of EntryBody: the order of the second leg has the sign of the
\* first, while the recorded quantity keeps its own.
EntryBodySameSide(pair, position, coeff, dollar, open_prices) ==
    LET quantity1 == Quantity1(position, coeff, dollar, open_prices[pair[1]])
        quantity2 == Quantity2(position, coeff, dollar, open_prices[pair[2]])
    IN  [q |-> <<quantity1, quantity2>>,
         out |-> << <<pair[1], quantity1>>, <<pair[2], RNeg(quantity2)>> >>]

\* Lines 187-193: an entry sizes both legs and records the quantities.
EntryBody(pair, position, coeff, dollar, open_prices) ==
    LET quantity1 == Quantity1(position, coeff, dollar, open_prices[pair[1]])
        quantity2 == Quantity2(position, coeff, dollar, open_prices[pair[2]])
    IN  [q |-> <<quantity1, quantity2>>,
         out |-> << <<pair[1], quantity1>>, <<pair[2], quantity2>> >>]

\* Variant of TradeStep: the two orders are put in front of the list.
TradeStepPrepend(acc, decision, open_prices) ==
    LET pair == decision[1]
        position == decision[2]
        r == IF position = 0
             THEN ExitBody(pair, acc.quantities[pair])
             ELSE EntryBody(pair, position, OLS_coeff[pair],
                            dollar_per_trade, open_prices)
        q == [acc.quantities EXCEPT ![pair] = r.q]
    IN  [quantities |-> q,
         trades |-> r.out \o acc.trades,
         qtrace |-> Append(acc.qtrace, q)]

\* Variant of TradeStep: an exit resets the recorded quantities of every
\* pair.
TradeStepResetAll(acc, decision, open_prices) ==
    LET pair == decision[1]
        position == decision[2]
        r == IF position = 0
             THEN ExitBody(pair, acc.quantities[pair])
             ELSE EntryBody(pair, position, OLS_coeff[pair],
                            dollar_per_trade, open_prices)
        q == IF position = 0
             THEN [p \in PairSet |-> <<Zero, Zero>>]
             ELSE [acc.quantities EXCEPT ![pair] = r.q]
    IN  [quantities |-> q,
         trades |-> acc.trades \o r.out,
         qtrace |-> Append(acc.qtrace, q)]

\* Lines 178-193: the loop body applied to one decision.  acc holds
\* self.quantities and the local list trades; qtrace records self.quantities
\* after each iteration.
TradeStep(acc, decision, open_prices) ==
    LET pair == decision[1]
        position == decision[2]
        r == IF position = 0
             THEN ExitBody(pair, acc.quantities[pair])
             ELSE EntryBody(pair, position, OLS_coeff[pair],
                            dollar_per_trade, open_prices)
        q == [acc.quantities EXCEPT ![pair] = r.q]
    IN  [quantities |-> q,
         trades |-> acc.trades \o r.out,
         qtrace |-> Append(acc.qtrace, q)]

\* Lines 177-194: the loop over the decisions in list order, from the k-th on.
RECURSIVE TradeLoop(_, _, _, _)
TradeLoop(k, acc, decisions, open_prices) ==
    IF k > Len(decisions)
    THEN acc
    ELSE TradeLoop(k + 1, TradeStep(acc, decisions[k], open_prices),
                   decisions, open_prices)

\* TradingModel.trade_helper(decisions, open_prices)
trade_helper(decisions, open_prices) ==
    \E r \in {TradeLoop(1, [quantities |-> quantities, trades |-> << >>,
                            qtrace |-> << >>],
                        decisions, open_prices)} :
        /\ quantities' = r.quantities
        /\ call' = [op |-> "trade_helper",
                    decisions |-> decisions,
                    open_prices |-> open_prices,
                    positions0 |-> positions,
                    quantities0 |-> quantities,
                    qtrace |-> r.qtrace,
                    trades |-> r.trades]
        /\ UNCHANGED <<params, positions, account>>

(* ------------------------- make_decisions, trade ----------------------- *)

\* Variant of LastCloseDates: the day of the last row.
LastCloseDatesFinal ==
    [PERMNO \in PERMNOs |-> Index(PERMNO)[Len(Index(PERMNO))]]

\* Line 90: last_close_dates[PERMNO] = get_PERMNO(PERMNO).index[-2], the day
\* of the row before the last (every instrument has two rows at least).
LastCloseDates ==
    [PERMNO \in PERMNOs |-> Index(PERMNO)[Len(Index(PERMNO)) - 1]]

\* Lines 92-96: the close of every instrument on the date, NaN when it has
\* no row.
ClosesOn(close_date) ==
    [PERMNO \in PERMNOs |->
        IF DlyClose(PERMNO, close_date) = << >>
        THEN NaNPrice
        ELSE DlyClose(PERMNO, close_date)[1]]

\* Lines 74-98: TradingModel.make_decisions(close_date).
make_decisions(close_date) ==
    make_decisions_helper(close_date, ClosesOn(close_date), LastCloseDates)

\* Lines 117-122: the open of every instrument on the date, NaN when it has
\* no row.
OpensOn(open_date) ==
    [PERMNO \in PERMNOs |->
        IF DlyOpen(PERMNO, open_date) = << >>
        THEN NaN
        ELSE DlyOpen(PERMNO, open_date)[1]]

\* Lines 101-124: TradingModel.trade(decisions, open_date).
trade(decisions, open_date) == trade_helper(decisions, OpensOn(open_date))

(* -------------------------------- Account ------------------------------ *)

\* The Account object as a record of its attributes.
Acct ==
    [date |-> date,
     buying_power |-> buying_power,
     assets |-> assets,
     capital |-> capital,
     transaction_history |-> transaction_history,
     capital_history |-> capital_history,
     asset_history |-> asset_history]

\* A method returns normally.
NoError == "none"

\* The ValueErrors of the class, by the line that raises them.
DateOrderError == "Date must be after the current date"

NotTradingDayError == "is not a trading day"

NegativeTransactionError == "Buying power is negative after transaction"

NegativeLiquidationError == "Buying power is negative after liquidation"

PriceError == "Not a trading day for PERMNO"

\* How a method call ends: the object as the call leaves it, and the error
\* it raises (NoError when it returns).
Outcome(a, err) == [acct |-> a, raised |-> err]

\* Lines 140-148: the open price of PERMNO on the day, or the error when the
\* database has no row or a NaN for it.
get_price(PERMNO, day) ==
    LET data == DlyOpen(PERMNO, day)
    IN  IF data = << >> \/ IsNaN(data[1])
        THEN [raised |-> PriceError, price |-> NaN]
        ELSE [raised |-> NoError, price |-> data[1]]

\* Variant of DateMovesBack: the current date itself is refused too.
DateMovesBackInclusive(day, current) == day <= current

\* Line 43: the date is before the current date.
DateMovesBack(day, current) == day < current

\* Variant of update_date: no check of the direction.
update_dateNoOrderCheck(a, day) ==
    IF ~IsTradingDay(day)
    THEN Outcome(a, NotTradingDayError)
    ELSE Outcome([a EXCEPT !.date = day], NoError)

\* Variant of update_date: the date is assigned before the calendar is
\* asked.
update_dateAssignFirst(a, day) ==
    IF DateMovesBack(day, a.date)
    THEN Outcome(a, DateOrderError)
    ELSE IF ~IsTradingDay(day)
    THEN Outcome([a EXCEPT !.date = day], NotTradingDayError)
    ELSE Outcome([a EXCEPT !.date = day], NoError)

\* Lines 41-52: Account.update_date(date).
update_date(a, day) ==
    IF DateMovesBack(day, a.date)
    THEN Outcome(a, DateOrderError)
    ELSE IF ~IsTradingDay(day)
    THEN Outcome(a, NotTradingDayError)
    ELSE Outcome([a EXCEPT !.date = day], NoError)

\* PERMNO in self.assets
HasAsset(held, PERMNO) == \E i \in 1..Len(held) : held[i][1] = PERMNO

\* The place of PERMNO in the dict's insertion order.
AssetIndex(held, PERMNO) == CHOOSE i \in 1..Len(held) : held[i][1] = PERMNO

\* del self.assets[PERMNO], for the entry at place i.
RemoveAt(held, i) == SubSeq(held, 1, i - 1) \o SubSeq(held, i + 1, Len(held))

\* np.isclose(x, 0, atol=1e-10): |x - 0| <= 1e-10 + rtol * |0|, false on NaN.
\* For x = n/d this is |n| * 10^10 <= d, that is |n| <= floor(d / 10^10); the
\* floor is taken in two steps to stay within 32-bit integers.
np_isclose(x) ==
    /\ ~IsNaN(x)
    /\ Abs(x[1]) <= (x[2] \div 100000) \div 100000

\* Variant of AssetsAfterOrder: the order replaces the quantity held.
AssetsAfterOrderOverwriting(held, PERMNO, quantity) ==
    IF HasAsset(held, PERMNO)
    THEN LET i == AssetIndex(held, PERMNO)
         IN  IF np_isclose(quantity)
             THEN RemoveAt(held, i)
             ELSE [held EXCEPT ![i] = <<PERMNO, quantity>>]
    ELSE Append(held, <<PERMNO, quantity>>)

\* Lines 66-71: the holdings after an order of quantity for PERMNO.
AssetsAfterOrder(held, PERMNO, quantity) ==
    IF HasAsset(held, PERMNO)
    THEN LET i == AssetIndex(held, PERMNO)
             sum == RAdd(held[i][2], quantity)
         IN  IF np_isclose(sum)
             THEN RemoveAt(held, i)
             ELSE [held EXCEPT ![i] = <<PERMNO, sum>>]
    ELSE Append(held, <<PERMNO, quantity>>)

\* Lines 74-77: a row of the transaction log.
TransactionRow(day, PERMNO, quantity, price) ==
    [timestamp |-> day, PERMNO |-> PERMNO, quantity |-> quantity,
     price |-> price]

\* Variant of CashAfterOrder: the cost of the order is credited.
CashAfterOrderCredited(cash, quantity, price) ==
    RAdd(cash, RMul(quantity, price))

\* Variant of CashAfterOrder: every order costs one unit of cash on top of
\* its price.
CashAfterOrderWithFee(cash, quantity, price) ==
    RSub(RSub(cash, RMul(quantity, price)), One)

\* Line 65: self.buying_power -= quantity * price
CashAfterOrder(cash, quantity, price) == RSub(cash, RMul(quantity, price))

\* Lines 62-77: the loop body of make_transaction applied to one order.
TransactionStep(a, order) ==
    LET PERMNO == order[1]
        quantity == order[2]
        p == get_price(PERMNO, a.date)
    IN  IF p.raised # NoError
        THEN Outcome(a, p.raised)
        ELSE Outcome(
                 [a EXCEPT
                    !.buying_power = CashAfterOrder(@, quantity, p.price),
                    !.assets = AssetsAfterOrder(@, PERMNO, quantity),
                    !.transaction_history =
                        Append(@, TransactionRow(a.date, PERMNO, quantity,
                                                 p.price))],
                 NoError)

\* Variant of TransactionLoop: an order whose price lookup fails is skipped
\* and the rest of the batch is applied before the error is raised.
RECURSIVE TransactionLoopSkipping(_, _, _)
TransactionLoopSkipping(k, a, transactions) ==
    IF k > Len(transactions)
    THEN Outcome(a, NoError)
    ELSE LET r == TransactionStep(a, transactions[k])
             rest == TransactionLoopSkipping(k + 1, r.acct, transactions)
         IN  IF r.raised # NoError
             THEN Outcome(rest.acct, r.raised)
             ELSE rest

\* Lines 61-77: the loop over the orders in list order, from the k-th on; it
\* stops at the first order whose price lookup raises.
RECURSIVE TransactionLoop(_, _, _)
TransactionLoop(k, a, transactions) ==
    IF k > Len(transactions)
    THEN Outcome(a, NoError)
    ELSE LET r == TransactionStep(a, transactions[k])
         IN  IF r.raised # NoError
             THEN r
             ELSE TransactionLoop(k + 1, r.acct, transactions)

\* Variant of NegativeCheck: zero cash is refused too.
NegativeCheckInclusive(cash, negative_balance) ==
    ~negative_balance /\ RLe(cash, Zero)

\* Lines 81 and 100: not negative_balance and self.buying_power < 0
NegativeCheck(cash, negative_balance) ==
    ~negative_balance /\ RLt(cash, Zero)

\* Variant of make_transaction: the batch is undone when the check fails.
make_transactionRollback(a, transactions, negative_balance) ==
    LET r == TransactionLoop(1, a, transactions)
    IN  IF r.raised # NoError
        THEN r
        ELSE IF NegativeCheck(r.acct.buying_power, negative_balance)
        THEN Outcome(a, NegativeTransactionError)
        ELSE r

\* Lines 55-82: Account.make_transaction(transactions, negative_balance).
make_transaction(a, transactions, negative_balance) ==
    LET r == TransactionLoop(1, a, transactions)
    IN  IF r.raised # NoError
        THEN r
        ELSE IF NegativeCheck(r.acct.buying_power, negative_balance)
        THEN Outcome(r.acct, NegativeTransactionError)
        ELSE r

\* Variant of LiquidateStep: the row records the quantity held, not the
\* quantity sold.
LiquidateStepUnsigned(a, item) ==
    LET PERMNO == item[1]
        quantity == item[2]
        p == get_price(PERMNO, a.date)
    IN  IF p.raised # NoError
        THEN Outcome(a, p.raised)
        ELSE Outcome(
                 [a EXCEPT
                    !.buying_power = RAdd(@, RMul(quantity, p.price)),
                    !.transaction_history =
                        Append(@, TransactionRow(a.date, PERMNO, quantity,
                                                 p.price))],
                 NoError)

\* Lines 91-96: the loop body of liquidate applied to one entry of
\* self.assets.
LiquidateStep(a, item) ==
    LET PERMNO == item[1]
        quantity == item[2]
        p == get_price(PERMNO, a.date)
    IN  IF p.raised # NoError
        THEN Outcome(a, p.raised)
        ELSE Outcome(
                 [a EXCEPT
                    !.buying_power = RAdd(@, RMul(quantity, p.price)),
                    !.transaction_history =
                        Append(@, TransactionRow(a.date, PERMNO,
                                                 RNeg(quantity), p.price))],
                 NoError)

\* Lines 90-96: the loop over self.assets.items() in insertion order, from
\* the k-th entry on; it stops at the first entry whose price lookup raises.
RECURSIVE LiquidateLoop(_, _)
LiquidateLoop(k, a) ==
    IF k > Len(a.assets)
    THEN Outcome(a, NoError)
    ELSE LET r == LiquidateStep(a, a.assets[k])
         IN  IF r.raised # NoError
             THEN r
             ELSE LiquidateLoop(k + 1, r.acct)

\* Variant of liquidate: a refused liquidation leaves the account as it was.
liquidateRollback(a, negative_balance) ==
    LET r == LiquidateLoop(1, a)
        cleared == [r.acct EXCEPT !.assets = << >>]
    IN  IF r.raised # NoError
        THEN r
        ELSE IF NegativeCheck(cleared.buying_power, negative_balance)
        THEN Outcome(a, NegativeLiquidationError)
        ELSE Outcome(cleared, NoError)

\* Variant of liquidate: the holdings are sold but not cleared.
liquidateKeepingAssets(a, negative_balance) ==
    LET r == LiquidateLoop(1, a)
    IN  IF r.raised # NoError
        THEN r
        ELSE IF NegativeCheck(r.acct.buying_power, negative_balance)
        THEN Outcome(r.acct, NegativeLiquidationError)
        ELSE Outcome(r.acct, NoError)

\* Lines 85-101: Account.liquidate(negative_balance).
liquidate(a, negative_balance) ==
    LET r == LiquidateLoop(1, a)
        cleared == [r.acct EXCEPT !.assets = << >>]
    IN  IF r.raised # NoError
        THEN r
        ELSE IF NegativeCheck(cleared.buying_power, negative_balance)
        THEN Outcome(cleared, NegativeLiquidationError)
        ELSE Outcome(cleared, NoError)

\* The PERMNO column of the cash row of the asset snapshot log ("CASH" in the
\* source; the PERMNOs are positive).
CASH == 0

\* Line 113: a row of the asset snapshot log.
AssetRow(day, PERMNO, quantity, value) ==
    [timestamp |-> day, PERMNO |-> PERMNO, quantity |-> quantity,
     value |-> value]

\* Lines 109-113: the loop of update_capital over self.assets.items(), from
\* the k-th entry on; asset_value is the running sum.
RECURSIVE CapitalLoop(_, _, _)
CapitalLoop(k, a, asset_value) ==
    IF k > Len(a.assets)
    THEN [acct |-> a, raised |-> NoError, asset_value |-> asset_value]
    ELSE LET PERMNO == a.assets[k][1]
             quantity == a.assets[k][2]
             p == get_price(PERMNO, a.date)
             value == RMul(quantity, p.price)
         IN  IF p.raised # NoError
             THEN [acct |-> a, raised |-> p.raised,
                   asset_value |-> asset_value]
             ELSE CapitalLoop(
                      k + 1,
                      [a EXCEPT !.asset_history =
                           Append(@, AssetRow(a.date, PERMNO, quantity,
                                              value))],
                      RAdd(asset_value, value))

\* update_capital with the capital taken as the asset value alone.
update_capitalWithoutCash(a) ==
    LET r == CapitalLoop(1, a, Zero)
        total == r.asset_value
    IN  IF r.raised # NoError
        THEN Outcome(r.acct, r.raised)
        ELSE Outcome(
                 [r.acct EXCEPT
                    !.asset_history =
                        Append(@, AssetRow(a.date, CASH, One,
                                           r.acct.buying_power)),
                    !.capital = total,
                    !.capital_history =
                        Append(@, [timestamp |-> a.date, capital |-> total])],
                 NoError)

\* Lines 104-116: Account.update_capital().
update_capital(a) ==
    LET r == CapitalLoop(1, a, Zero)
        total == RAdd(r.acct.buying_power, r.asset_value)
    IN  IF r.raised # NoError
        THEN Outcome(r.acct, r.raised)
        ELSE Outcome(
                 [r.acct EXCEPT
                    !.asset_history =
                        Append(@, AssetRow(a.date, CASH, One,
                                           r.acct.buying_power)),
                    !.capital = total,
                    !.capital_history =
                        Append(@, [timestamp |-> a.date, capital |-> total])],
                 NoError)

\* pd.DataFrame(rows) for a list of dicts with the given keys, in the order
\* of the dict literal: one line per dict, in list order, holding the values
\* in column order; an empty list gives a frame without columns.
DataFrame(rows, keys) ==
    [columns |-> IF rows = << >> THEN << >> ELSE keys,
     values |-> [i \in 1..Len(rows) |->
                    [j \in 1..Len(keys) |-> rows[i][keys[j]]]]]

\* Variant of get_transaction_history: the lines are in the reverse of the
\* list order.
get_transaction_historyReversed(a) ==
    LET df == DataFrame(a.transaction_history,
                        <<"timestamp", "PERMNO", "quantity", "price">>)
        n == Len(df.values)
    IN  [df EXCEPT !.values = [i \in 1..n |-> df.values[n + 1 - i]]]

\* Lines 119-120: Account.get_transaction_history().
get_transaction_history(a) ==
    DataFrame(a.transaction_history,
              <<"timestamp", "PERMNO", "quantity", "price">>)

\* Lines 123-124: Account.get_capital_history().
get_capital_history(a) ==
    DataFrame(a.capital_history, <<"timestamp", "capital">>)

\* Lines 127-131: Account.get_asset_history().
get_asset_history(a) ==
    DataFrame(a.asset_history,
              <<"timestamp", "PERMNO", "quantity", "value">>)

\* capital_history[-1] and capital_history[0] of an empty list.
IndexError == "list index out of range"

\* Variant of calc_total_return: the gain is divided by the last capital.
calc_total_returnOverLast(a) ==
    LET n == Len(a.capital_history)
    IN  IF n = 0
        THEN [raised |-> IndexError, value |-> NaN]
        ELSE [raised |-> NoError,
              value |-> RDiv(RSub(a.capital_history[n].capital,
                                  a.capital_history[1].capital),
                             a.capital_history[n].capital)]

\* Lines 134-136: Account.calc_total_return().  The capital is a numpy float
\* as soon as an order has been applied, and a numpy division by zero gives
\* inf or nan with a warning: the non-number of RDiv.
calc_total_return(a) ==
    LET n == Len(a.capital_history)
    IN  IF n = 0
        THEN [raised |-> IndexError, value |-> NaN]
        ELSE [raised |-> NoError,
              value |-> RDiv(RSub(a.capital_history[n].capital,
                                  a.capital_history[1].capital),
                             a.capital_history[1].capital)]

(* ------------------------------ the caller ----------------------------- *)

\* A decision is (pair, target position).
Decision == PairSet \X {-1, 0, 1}

\* The decision lists handed to trade_helper: any list of at most
\* MaxDecisions decisions.
DecisionLists == UNION {[1..n -> Decision] : n \in 0..MaxDecisions}

\* A call of make_decisions_helper with arbitrary arguments.
Decide ==
    /\ call = Idle
    /\ UNCHANGED frame
    /\ \E close_date \in Dates,
          close_prices \in [PERMNOs -> ClosePrices],
          last_close_dates \in [PERMNOs -> Dates] :
           make_decisions_helper(close_date, close_prices, last_close_dates)

\* A call of trade_helper with arbitrary arguments.
Trade ==
    /\ call = Idle
    /\ UNCHANGED frame
    /\ \E decisions \in DecisionLists,
          open_prices \in [PERMNOs -> OpenPrices] :
           trade_helper(decisions, open_prices)

\* The object's attributes become those of the record a.
SetAccount(a) ==
    /\ date' = a.date
    /\ buying_power' = a.buying_power
    /\ assets' = a.assets
    /\ capital' = a.capital
    /\ transaction_history' = a.transaction_history
    /\ capital_history' = a.capital_history
    /\ asset_history' = a.asset_history

\* An order is (PERMNO, quantity).
Order == OrderPERMNOs \X OrderQuantities

\* The batches handed to make_transaction: any list of at most MaxOrders
\* orders.
OrderLists == UNION {[1..n -> Order] : n \in 0..MaxOrders}

\* A call of update_date with an arbitrary date.
UpdateDate ==
    /\ call = Idle
    /\ UNCHANGED frame
    /\ \E day \in Days :
       \E r \in {update_date(Acct, day)} :
           /\ SetAccount(r.acct)
           /\ call' = [op |-> "update_date",
                       date |-> day,
                       account0 |-> Acct,
                       previous |-> Idle,
                       raised |-> r.raised]
           /\ UNCHANGED model

\* The caller repeats the call of update_date it has just made, with the
\* same date; previous keeps how the first call ended and the date it
\* started from.
UpdateDateAgain ==
    /\ call.op = "update_date"
    /\ UNCHANGED frame
    /\ call.previous = Idle
    /\ \E r \in {update_date(Acct, call.date)} :
           /\ SetAccount(r.acct)
           /\ call' = [op |-> "update_date",
                       date |-> call.date,
                       account0 |-> Acct,
                       previous |-> [raised |-> call.raised,
                                     date0 |-> call.account0.date],
                       raised |-> r.raised]
           /\ UNCHANGED model

\* A call of make_transaction with an arbitrary batch and flag.
MakeTransaction ==
    /\ call = Idle
    /\ UNCHANGED frame
    /\ \E transactions \in OrderLists, negative_balance \in BOOLEAN :
           /\ Len(transaction_history) + Len(transactions) <= MaxRows
           /\ \E r \in {make_transaction(Acct, transactions,
                                          negative_balance)} :
               /\ SetAccount(r.acct)
               /\ call' = [op |-> "make_transaction",
                           transactions |-> transactions,
                           negative_balance |-> negative_balance,
                           account0 |-> Acct,
                           raised |-> r.raised]
           /\ UNCHANGED model

\* A call of liquidate with an arbitrary flag.
Liquidate ==
    /\ call = Idle
    /\ UNCHANGED frame
    /\ Len(transaction_history) <= MaxRows
    /\ \E negative_balance \in BOOLEAN :
       \E r \in {liquidate(Acct, negative_balance)} :
           /\ SetAccount(r.acct)
           /\ call' = [op |-> "liquidate",
                       negative_balance |-> negative_balance,
                       account0 |-> Acct,
                       raised |-> r.raised]
           /\ UNCHANGED model

\* A call of update_capital.
UpdateCapital ==
    /\ call = Idle
    /\ UNCHANGED frame
    /\ Len(capital_history) < MaxMarks
    /\ Len(asset_history) + Len(assets) + 1 <= MaxSnapshots
    /\ \E r \in {update_capital(Acct)} :
           /\ SetAccount(r.acct)
           /\ call' = [op |-> "update_capital",
                       account0 |-> Acct,
                       raised |-> r.raised]
           /\ UNCHANGED model

\* The caller has looked at the returned list and rebinds its locals
\* (arguments and result) for the next call; the object's state stays.
Return ==
    /\ call # Idle
    /\ call' = Idle
    /\ UNCHANGED <<model, account, frame>>

\* The signal engine alone: an object built with the default
\* dollar_per_trade, on which make_decisions_helper is called repeatedly.
InitDecide ==
    /\ Init
    /\ dollar_per_trade = Rat(1)
    /\ date = 1
    /\ buying_power = Rat(1)

NextDecide == Decide \/ Return

SpecDecide == InitDecide /\ [][NextDecide]_vars

\* The execution translator alone: an object built as in test_trade_2 (one
\* threshold for every pair, dollar_per_trade = 15), on which trade_helper
\* is called repeatedly.
InitTrade ==
    /\ Init
    /\ threshold = [pair \in PairSet |-> Rat(2)]
    /\ dollar_per_trade = Rat(15)
    /\ date = 1
    /\ buying_power = Rat(1)

NextTrade == Trade \/ Return

SpecTrade == InitTrade /\ [][NextTrade]_vars

\* The account alone: the TradingModel object is built once and left alone,
\* and the Account methods are called in any order.
InitAccount ==
    /\ Init
    /\ OLS_coeff = [pair \in PairSet |-> <<Rat(1), Rat(0)>>]
    /\ threshold = [pair \in PairSet |-> Rat(1)]
    /\ dollar_per_trade = Rat(1)

NextAccount ==
    \/ UpdateDate
    \/ UpdateDateAgain
    \/ MakeTransaction
    \/ Liquidate
    \/ UpdateCapital
    \/ Return

SpecAccount == InitAccount /\ [][NextAccount]_vars

\* The ledger alone: the account without its mark-to-market.
NextLedger ==
    UpdateDate \/ UpdateDateAgain \/ MakeTransaction \/ Liquidate \/ Return

SpecLedger == InitAccount /\ [][NextLedger]_vars

\* A call of make_decisions with an arbitrary date.
MakeDecisions ==
    /\ call = Idle
    /\ UNCHANGED frame
    /\ \E close_date \in CalendarDays : make_decisions(close_date)

NextSignal == MakeDecisions \/ Return

\* The signal engine on the database: make_decisions is called repeatedly.
SpecSignal == InitDecide /\ [][NextSignal]_vars

\* The pair state: make_decisions on the database and trade_helper with
\* arbitrary arguments, in any order.
NextPairState == MakeDecisions \/ Trade \/ Return

\* The object of test_make_decisions_1 (threshold 1, stop loss 4) with a
\* different hedge ratio for each pair.
InitPairState ==
    /\ InitDecide
    /\ threshold = [pair \in PairSet |-> Rat(1)]
    /\ OLS_coeff = [pair \in PairSet |->
                        IF pair = pairs[1] THEN <<Rat(2), Rat(1)>>
                                           ELSE <<Rat(1), Rat(0)>>]

SpecPairState == InitPairState /\ [][NextPairState]_vars

\* A caller that concatenates the lists make_decisions_helper returns.  Of
\* the list built so far it keeps, for every pair, the last decision that
\* concerns the pair (none at first): last0 before the last call, last
\* after it.
CollectStart ==
    /\ frame = NoFrame
    /\ call = Idle
    /\ frame' = [pc |-> "collect",
                 last0 |-> [pair \in PairSet |-> << >>],
                 last |-> [pair \in PairSet |-> << >>]]
    /\ UNCHANGED <<model, account, call>>

\* A call of make_decisions_helper with arbitrary arguments, whose result
\* is added to the list of the caller.
DecideCollect ==
    /\ frame.pc = "collect"
    /\ call = Idle
    /\ \E close_date \in Dates,
          close_prices \in [PERMNOs -> ClosePrices],
          last_close_dates \in [PERMNOs -> Dates] :
           make_decisions_helper(close_date, close_prices, last_close_dates)
    /\ frame' = [frame EXCEPT
                   !.last0 = frame.last,
                   !.last = [pair \in PairSet |->
                                LET Concerns(d) == d[1] = pair
                                    ds == SelectSeq(call'.decisions, Concerns)
                                IN  IF ds = << >>
                                    THEN frame.last[pair]
                                    ELSE << ds[Len(ds)][2] >>]]

NextStream == CollectStart \/ DecideCollect \/ Return

SpecStream == InitPairState /\ [][NextStream]_vars

\* A caller that walks the dates in order, as test_make_decisions_3 does:
\* one table of last observed dates serves every call.  It remembers the
\* date of its last call (none at first) and the pairs that had a delisted
\* leg at some call: absorbed0 before the last call, absorbed after it.
OrderedStart ==
    /\ frame = NoFrame
    /\ call = Idle
    /\ \E last_close_dates \in [PERMNOs -> Dates] :
           frame' = [pc |-> "ordered",
                     last_close_dates |-> last_close_dates,
                     close_date |-> << >>,
                     absorbed0 |-> {},
                     absorbed |-> {}]
    /\ UNCHANGED <<model, account, call>>

\* A call of make_decisions_helper on a date not before the previous one,
\* with arbitrary closing prices.
DecideOrdered ==
    /\ frame.pc = "ordered"
    /\ call = Idle
    /\ \E close_date \in Dates, close_prices \in [PERMNOs -> ClosePrices] :
           /\ frame.close_date # << >> => close_date >= frame.close_date[1]
           /\ make_decisions_helper(close_date, close_prices,
                                    frame.last_close_dates)
           /\ frame' = [frame EXCEPT
                          !.close_date = << close_date >>,
                          !.absorbed0 = frame.absorbed,
                          !.absorbed = frame.absorbed \cup
                              {pair \in PairSet :
                                   Delisted(close_date,
                                            frame.last_close_dates, pair)}]

NextOrdered == OrderedStart \/ DecideOrdered \/ Return

SpecOrdered == InitPairState /\ [][NextOrdered]_vars

\* A caller that sizes every list of decisions right after it is made, as
\* lines 43-49 of simulate_pairs.py do, on any day of the database and
\* with arbitrary positive opening prices.
StepStart ==
    /\ frame = NoFrame
    /\ call = Idle
    /\ frame' = [pc |-> "signal", decisions |-> << >>]
    /\ UNCHANGED <<model, account, call>>

\* decisions = model.make_decisions(close_date), on any day.
StepDecide ==
    /\ frame.pc = "signal"
    /\ \E close_date \in CalendarDays : make_decisions(close_date)
    /\ frame' = [pc |-> "execute", decisions |-> call'.decisions]

\* trades = trade_helper(decisions, open_prices), with arbitrary positive
\* opening prices.
StepSize ==
    /\ frame.pc = "execute"
    /\ \E open_prices \in [PERMNOs -> OpenPrices] :
           trade_helper(frame.decisions, open_prices)
    /\ frame' = [pc |-> "signal", decisions |-> << >>]

NextStep == StepStart \/ StepDecide \/ StepSize

SpecStep == InitPairState /\ [][NextStep]_vars

\* A call of get_transaction_history.
GetTransactionHistory ==
    /\ call = Idle
    /\ call' = [op |-> "get_transaction_history",
                account0 |-> Acct,
                raised |-> NoError,
                df |-> get_transaction_history(Acct)]
    /\ UNCHANGED <<model, account, frame>>

\* A call of get_capital_history.
GetCapitalHistory ==
    /\ call = Idle
    /\ call' = [op |-> "get_capital_history",
                account0 |-> Acct,
                raised |-> NoError,
                df |-> get_capital_history(Acct)]
    /\ UNCHANGED <<model, account, frame>>

\* A call of get_asset_history.
GetAssetHistory ==
    /\ call = Idle
    /\ call' = [op |-> "get_asset_history",
                account0 |-> Acct,
                raised |-> NoError,
                df |-> get_asset_history(Acct)]
    /\ UNCHANGED <<model, account, frame>>

\* A call of calc_total_return.
CalcTotalReturn ==
    /\ call = Idle
    /\ \E r \in {calc_total_return(Acct)} :
           call' = [op |-> "calc_total_return",
                    account0 |-> Acct,
                    raised |-> r.raised,
                    value |-> r.value]
    /\ UNCHANGED <<model, account, frame>>

\* The account with its reports: every method of the Account is called in
\* any order.
NextReport ==
    \/ UpdateDate
    \/ MakeTransaction
    \/ Liquidate
    \/ UpdateCapital
    \/ GetTransactionHistory
    \/ GetCapitalHistory
    \/ GetAssetHistory
    \/ CalcTotalReturn
    \/ Return

SpecReport == InitAccount /\ [][NextReport]_vars

\* A caller that opens a pair and closes it again.  It sizes an entry with
\* trade_helper and keeps the account and the recorded quantities it
\* started from.  It starts while the transaction log holds fewer than
\* MaxRows rows.
SizeEntry ==
    /\ call = Idle
    /\ frame = NoFrame
    /\ Len(transaction_history) < MaxRows
    /\ \E pair \in PairSet, position \in {-1, 1},
          open_prices \in [PERMNOs -> OpenPrices] :
           trade_helper(<< <<pair, position>> >>, open_prices)
    /\ frame' = [pc |-> "entry sized",
                 account0 |-> Acct,
                 quantities0 |-> quantities]

\* The caller hands the orders it has just sized to make_transaction.
ApplyEntry ==
    /\ frame.pc = "entry sized"
    /\ \E negative_balance \in BOOLEAN :
       \E r \in {make_transaction(Acct, call.trades, negative_balance)} :
           /\ SetAccount(r.acct)
           /\ call' = [op |-> "make_transaction",
                       transactions |-> call.trades,
                       negative_balance |-> negative_balance,
                       account0 |-> Acct,
                       raised |-> r.raised]
           /\ frame' = [frame EXCEPT !.pc = "entry applied"]
                           @@ [pair |-> call.decisions[1][1],
                               open_prices |-> call.open_prices,
                               negative_balance |-> negative_balance,
                               entry |-> call.trades]
    /\ UNCHANGED model

\* The caller sizes the exit of the pair it has entered, with the same
\* prices.
SizeExit ==
    /\ frame.pc = "entry applied"
    /\ trade_helper(<< <<frame.pair, 0>> >>, frame.open_prices)
    /\ frame' = [frame EXCEPT !.pc = "exit sized"]

\* The caller hands the orders of the exit to make_transaction, with the
\* flag it used for the entry.
ApplyExit ==
    /\ frame.pc = "exit sized"
    /\ \E r \in {make_transaction(Acct, call.trades,
                                  frame.negative_balance)} :
           /\ SetAccount(r.acct)
           /\ call' = [op |-> "make_transaction",
                       transactions |-> call.trades,
                       negative_balance |-> frame.negative_balance,
                       account0 |-> Acct,
                       raised |-> r.raised]
           /\ frame' = [frame EXCEPT !.pc = "exit applied"]
    /\ UNCHANGED model

\* The caller stops where it is, and forgets what it kept.
Leave ==
    /\ frame # NoFrame
    /\ frame' = NoFrame
    /\ call' = Idle
    /\ UNCHANGED <<model, account>>

NextRoundTrip == SizeEntry \/ ApplyEntry \/ SizeExit \/ ApplyExit \/ Leave

\* The object of test_trade_2 with a different hedge ratio for each pair.
InitRoundTrip ==
    /\ InitTrade
    /\ OLS_coeff = [pair \in PairSet |->
                        IF pair = pairs[1] THEN <<Rat(1), Rat(0)>>
                                           ELSE <<Rat(2), Rat(1)>>]

SpecRoundTrip == InitRoundTrip /\ [][NextRoundTrip]_vars

(* ------------------------------ the driver ----------------------------- *)

\* The windows (train_end, test_end) of windows.csv.
Windows ==
    {<<3, 9>>, <<3, 13>>, <<5, 11>>, <<1, 7>>, <<4, 8>>, <<7, 7>>, <<2, 2>>}

\* simulate_pairs.py lines 34-35: nyse.schedule(start_date, end_date), the
\* trading days from start_date to end_date, ascending.
TradingDaysOf(window) ==
    LET S == {day \in window[1]..window[2] : IsTradingDay(day)}
    IN  [i \in 1..Cardinality(S) |->
            CHOOSE day \in S : Cardinality({e \in S : e <= day}) = i]

\* simulation.py lines 30-38: Account.__init__(start_date, buying_power).
AccountNew(start_date, cash) ==
    [date |-> start_date,
     buying_power |-> cash,
     assets |-> << >>,
     capital |-> cash,
     transaction_history |-> << >>,
     capital_history |-> << >>,
     asset_history |-> << >>]

\* Line 37: the cash the driver gives the account.
DriverCash == Rat(20)

\* Lines 34-39: the driver takes a window, lists its trading days and builds
\* the account on the first of them (IndexError on a window without trading
\* days).  i is the place in trading_days of the current day: the loop of
\* line 39 runs over the second to the last-but-one day.  decided and sized
\* keep the last calls of make_decisions and trade; log lists the calls made
\* on the account, with the account's date.
DriverConstruct ==
    /\ frame = NoFrame
    /\ call = Idle
    /\ \E window \in Windows :
           LET trading_days == TradingDaysOf(window)
               n == Len(trading_days)
               locals == [pc |-> "crashed",
                          trading_days |-> trading_days,
                          i |-> 0,
                          decided |-> Idle,
                          sized |-> Idle,
                          decisions |-> << >>,
                          trades |-> << >>,
                          unique_trades |-> {},
                          log |-> << >>,
                          returns |-> << >>]
           IN  IF n = 0
               THEN /\ frame' = locals
                    /\ UNCHANGED account
               ELSE /\ SetAccount(AccountNew(trading_days[1], DriverCash))
                    /\ frame' = [locals EXCEPT
                                   !.pc = IF n >= 3 THEN "decide"
                                                    ELSE "advance",
                                   !.i = IF n >= 3 THEN 2 ELSE n]
    /\ call' = Idle
    /\ UNCHANGED model

\* Variant of DriverDecide: the decisions are made from the closes of the
\* current day.
DriverDecideSameDay ==
    /\ frame.pc = "decide"
    /\ make_decisions(frame.trading_days[frame.i])
    /\ frame' = [frame EXCEPT
                   !.pc = "size",
                   !.decided = call',
                   !.decisions = call'.decisions,
                   !.unique_trades =
                       @ \cup {call'.decisions[k][1] :
                                 k \in {j \in 1..Len(call'.decisions) :
                                          call'.decisions[j][2] # 0}}]

\* Lines 40-46: decisions = model.make_decisions(previous_day), and the
\* pairs entered are added to unique_trades.
DriverDecide ==
    /\ frame.pc = "decide"
    /\ make_decisions(frame.trading_days[frame.i - 1])
    /\ frame' = [frame EXCEPT
                   !.pc = "size",
                   !.decided = call',
                   !.decisions = call'.decisions,
                   !.unique_trades =
                       @ \cup {call'.decisions[k][1] :
                                 k \in {j \in 1..Len(call'.decisions) :
                                          call'.decisions[j][2] # 0}}]

\* Line 49: trades = model.trade(decisions, current_day).
DriverSize ==
    /\ frame.pc = "size"
    /\ trade(frame.decisions, frame.trading_days[frame.i])
    /\ frame' = [frame EXCEPT
                   !.pc = "advance",
                   !.sized = call',
                   !.trades = call'.trades]

\* Where the driver goes after a call of the account: an exception ends the
\* script.
After(raised, pc) == IF raised # NoError THEN "crashed" ELSE pc

\* Lines 52 and 57: account.update_date(current_day) in the loop,
\* account.update_date(trading_days[-1]) after it.
DriverAdvance ==
    /\ frame.pc = "advance"
    /\ \E day \in {frame.trading_days[frame.i]} :
       \E r \in {update_date(Acct, day)} :
           /\ SetAccount(r.acct)
           /\ call' = [op |-> "update_date",
                       date |-> day,
                       account0 |-> Acct,
                       previous |-> Idle,
                       raised |-> r.raised]
           /\ frame' = [frame EXCEPT
                          !.pc = After(r.raised,
                                       IF frame.i = Len(frame.trading_days)
                                       THEN "liquidate" ELSE "apply"),
                          !.log = Append(@, <<"update_date", day>>)]
    /\ UNCHANGED model

\* Line 53: account.make_transaction(trades, negative_balance=True).
DriverApply ==
    /\ frame.pc = "apply"
    /\ \E r \in {make_transaction(Acct, frame.trades, TRUE)} :
           /\ SetAccount(r.acct)
           /\ call' = [op |-> "make_transaction",
                       transactions |-> frame.trades,
                       negative_balance |-> TRUE,
                       account0 |-> Acct,
                       raised |-> r.raised]
           /\ frame' = [frame EXCEPT
                          !.pc = After(r.raised, "mark"),
                          !.log = Append(@, <<"make_transaction", date>>)]
    /\ UNCHANGED model

\* Variant of DriverLiquidate: the driver reports right after it.
DriverLiquidateUnmarked ==
    /\ frame.pc = "liquidate"
    /\ \E r \in {liquidate(Acct, TRUE)} :
           /\ SetAccount(r.acct)
           /\ call' = [op |-> "liquidate",
                       negative_balance |-> TRUE,
                       account0 |-> Acct,
                       raised |-> r.raised]
           /\ frame' = [frame EXCEPT
                          !.pc = After(r.raised, "report"),
                          !.log = Append(@, <<"liquidate", date>>)]
    /\ UNCHANGED model

\* Line 58: account.liquidate(negative_balance=True).
DriverLiquidate ==
    /\ frame.pc = "liquidate"
    /\ \E r \in {liquidate(Acct, TRUE)} :
           /\ SetAccount(r.acct)
           /\ call' = [op |-> "liquidate",
                       negative_balance |-> TRUE,
                       account0 |-> Acct,
                       raised |-> r.raised]
           /\ frame' = [frame EXCEPT
                          !.pc = After(r.raised, "mark"),
                          !.log = Append(@, <<"liquidate", date>>)]
    /\ UNCHANGED model

\* Lines 54 and 59: account.update_capital(); then the next day of the loop,
\* the last day, or the report.
DriverMark ==
    /\ frame.pc = "mark"
    /\ \E r \in {update_capital(Acct)} :
       \E n \in {Len(frame.trading_days)} :
           /\ SetAccount(r.acct)
           /\ call' = [op |-> "update_capital",
                       account0 |-> Acct,
                       raised |-> r.raised]
           /\ frame' = [frame EXCEPT
                          !.pc = After(r.raised,
                                       IF frame.i = n THEN "report"
                                       ELSE IF frame.i + 1 < n THEN "decide"
                                       ELSE "advance"),
                          !.i = IF frame.i = n \/ r.raised # NoError
                                THEN @ ELSE @ + 1,
                          !.log = Append(@, <<"update_capital", date>>)]
    /\ UNCHANGED model

\* Line 62: returns.append(20 * calc_total_return() / len(unique_trades)),
\* or 0 when no pair was entered (calc_total_return is not called then).
DriverReport ==
    /\ frame.pc = "report"
    /\ IF frame.unique_trades = {}
       THEN /\ call' = Idle
            /\ frame' = [frame EXCEPT !.pc = "done",
                                      !.returns = Append(@, Zero)]
       ELSE \E r \in {calc_total_return(Acct)} :
                /\ call' = [op |-> "calc_total_return",
                            account0 |-> Acct,
                            raised |-> r.raised,
                            value |-> r.value]
                /\ frame' =
                       [frame EXCEPT
                          !.pc = After(r.raised, "done"),
                          !.returns =
                              IF r.raised # NoError THEN @
                              ELSE Append(@,
                                       RDiv(RMul(Rat(20), r.value),
                                            Rat(Cardinality(
                                                frame.unique_trades))))]
    /\ UNCHANGED <<model, account>>

NextDriver ==
    \/ DriverConstruct
    \/ DriverDecide
    \/ DriverSize
    \/ DriverAdvance
    \/ DriverApply
    \/ DriverLiquidate
    \/ DriverMark
    \/ DriverReport

\* Lines 24-31: the driver builds the model with stop_loss = 2 * threshold
\* (4 and 2 times the spread's deviation) and the default dollar_per_trade.
InitDriver ==
    /\ Init
    /\ \A pair \in PairSet :
           stop_loss[pair] = RMul(Rat(2), threshold[pair])
    /\ dollar_per_trade = Rat(1)
    /\ date = 1
    /\ buying_power = Rat(1)

SpecDriver == InitDriver /\ [][NextDriver]_vars

(* ------------------------------ everything ----------------------------- *)

Next ==
    \/ Decide
    \/ Trade
    \/ MakeDecisions
    \/ UpdateDate
    \/ UpdateDateAgain
    \/ MakeTransaction
    \/ Liquidate
    \/ UpdateCapital
    \/ GetTransactionHistory
    \/ GetCapitalHistory
    \/ GetAssetHistory
    \/ CalcTotalReturn
    \/ Return
    \/ NextRoundTrip
    \/ NextStream
    \/ NextOrdered
    \/ NextStep
    \/ NextDriver

Spec == Init /\ [][Next]_vars

(* ======================= properties: the signal engine ================= *)

\* The state right after a call of make_decisions_helper.
Decided == call.op = "make_decisions_helper"

\* Both legs of the pair are live on the call's date: the date is strictly
\* before the last observed date of each leg.
Live(pair) ==
    /\ call.close_date < call.last_close_dates[pair[1]]
    /\ call.close_date < call.last_close_dates[pair[2]]

\* The decisions of the returned list that concern the pair, in list order.
DecisionsOf(pair) ==
    LET Concerns(d) == d[1] = pair
    IN  SelectSeq(call.decisions, Concerns)

\* The spread lies strictly between lo and hi.
Inside(spread, lo, hi) == RLt(lo, spread) /\ RLt(spread, hi)

\* C1.  Entry rule: a live pair that is FLAT before the call emits exactly
\* (pair, -1) and becomes SHORT iff threshold < spread < stop_loss, emits
\* exactly (pair, +1) and becomes LONG iff -stop_loss < spread < -threshold,
\* and otherwise emits nothing and stays FLAT; a spread equal to one of the
\* four bounds never enters.
C1_EntryRule ==
    Decided =>
        \A pair \in PairSet :
            (Live(pair) /\ call.positions0[pair] = 0) =>
                LET s == call.spreads[pair]
                    th == threshold[pair]
                    sl == stop_loss[pair]
                    ds == DecisionsOf(pair)
                    short == ds = << <<pair, -1>> >> /\ positions[pair] = -1
                    long == ds = << <<pair, 1>> >> /\ positions[pair] = 1
                    none == ds = << >> /\ positions[pair] = 0
                IN  /\ Inside(s, th, sl) <=> short
                    /\ Inside(s, RNeg(sl), RNeg(th)) <=> long
                    /\ short \/ long \/ none
                    /\ s \in {th, RNeg(th), sl, RNeg(sl)} => none

\* C1 witness: one call in which a live FLAT pair enters and the other live
\* FLAT pair sits exactly on its threshold and stays FLAT.
C1_Witness ==
    /\ Decided
    /\ \E p \in PairSet, q \in PairSet :
        /\ p # q
        /\ Live(p) /\ Live(q)
        /\ call.positions0[p] = 0 /\ call.positions0[q] = 0
        /\ positions[p] = -1
        /\ DecisionsOf(p) = << <<p, -1>> >>
        /\ call.spreads[q] = threshold[q]
        /\ positions[q] = 0

\* C2.  Exit rule: a live LONG pair emits the exit (pair, 0) iff spread >= 0
\* or spread <= -stop_loss, a live SHORT pair iff spread <= 0 or
\* spread >= stop_loss; otherwise nothing is emitted and the position is
\* held.  The bounds 0 and the stop-loss are inclusive.
C2_ExitRule ==
    Decided =>
        \A pair \in PairSet :
            (Live(pair) /\ call.positions0[pair] # 0) =>
                LET s == call.spreads[pair]
                    sl == stop_loss[pair]
                    ds == DecisionsOf(pair)
                    exit == ds # << >> /\ ds[1] = <<pair, 0>>
                    held == ds = << >>
                            /\ positions[pair] = call.positions0[pair]
                    due == IF call.positions0[pair] = 1
                           THEN RGe(s, Zero) \/ RLe(s, RNeg(sl))
                           ELSE RLe(s, Zero) \/ RGe(s, sl)
                IN  /\ due <=> exit
                    /\ ~due <=> held

\* C2 witness: a live LONG pair whose spread is exactly 0 is exited.
C2_Witness ==
    /\ Decided
    /\ \E pair \in PairSet :
        /\ Live(pair)
        /\ call.positions0[pair] = 1
        /\ call.spreads[pair] = Zero
        /\ DecisionsOf(pair) = << <<pair, 0>> >>
        /\ positions[pair] = 0

\* C3.  Same-step exit then re-entry: a live LONG pair with
\* threshold < spread < stop_loss emits exactly (pair, 0) then (pair, -1) and
\* ends SHORT; a live SHORT pair with -stop_loss < spread < -threshold emits
\* exactly (pair, 0) then (pair, +1) and ends LONG.  Whenever a pair emits an
\* entry after an exit, the exit comes first and the entry is opposite to
\* the position just closed.
C3_ExitThenReenter ==
    Decided =>
        \A pair \in PairSet :
            LET s == call.spreads[pair]
                th == threshold[pair]
                sl == stop_loss[pair]
                ds == DecisionsOf(pair)
                p0 == call.positions0[pair]
            IN  /\ (Live(pair) /\ p0 = 1 /\ Inside(s, th, sl)) =>
                        /\ ds = << <<pair, 0>>, <<pair, -1>> >>
                        /\ positions[pair] = -1
                /\ (Live(pair) /\ p0 = -1 /\ Inside(s, RNeg(sl), RNeg(th))) =>
                        /\ ds = << <<pair, 0>>, <<pair, 1>> >>
                        /\ positions[pair] = 1
                /\ Len(ds) >= 2 =>
                        /\ Len(ds) = 2
                        /\ p0 # 0
                        /\ ds[1][2] = 0
                        /\ ds[2][2] = -p0

\* C3 witness: a live LONG pair has been closed and re-opened SHORT by one
\* call.
C3_Witness ==
    /\ Decided
    /\ \E pair \in PairSet :
        /\ Live(pair)
        /\ call.positions0[pair] = 1
        /\ Inside(call.spreads[pair], threshold[pair], stop_loss[pair])
        /\ DecisionsOf(pair) = << <<pair, 0>>, <<pair, -1>> >>
        /\ positions[pair] = -1

\* C4.  No re-entry after a stop-loss exit: a live positioned pair with
\* |spread| >= stop_loss emits exactly one decision, (pair, 0), and ends
\* FLAT.
C4_StopLossNoReentry ==
    Decided =>
        \A pair \in PairSet :
            LET s == call.spreads[pair]
                sl == stop_loss[pair]
            IN  (/\ Live(pair)
                 /\ call.positions0[pair] # 0
                 /\ (RGe(s, sl) \/ RLe(s, RNeg(sl)))) =>
                    /\ DecisionsOf(pair) = << <<pair, 0>> >>
                    /\ positions[pair] = 0

\* C4 witness: a live LONG pair is closed at a spread at or above the
\* stop-loss, which is also beyond the entry threshold.
C4_Witness ==
    /\ Decided
    /\ \E pair \in PairSet :
        /\ Live(pair)
        /\ call.positions0[pair] = 1
        /\ RGe(call.spreads[pair], stop_loss[pair])
        /\ RGt(call.spreads[pair], threshold[pair])
        /\ DecisionsOf(pair) = << <<pair, 0>> >>
        /\ positions[pair] = 0

\* C5.  Delisting rule: when the date is at or after the last observed date
\* of either leg, a positioned pair emits exactly (pair, 0) and becomes FLAT
\* and a FLAT pair emits nothing; no entry is emitted for the pair whatever
\* the spread.
C5_DelistingRule ==
    Decided =>
        \A pair \in PairSet :
            (\/ call.close_date >= call.last_close_dates[pair[1]]
             \/ call.close_date >= call.last_close_dates[pair[2]]) =>
                /\ positions[pair] = 0
                /\ DecisionsOf(pair) =
                       IF call.positions0[pair] # 0
                       THEN << <<pair, 0>> >>
                       ELSE << >>

\* C5 witness: on the last observed date of its first leg only, a SHORT pair
\* whose spread is inside the long entry band is closed and not re-opened.
C5_Witness ==
    /\ Decided
    /\ \E pair \in PairSet :
        /\ call.close_date = call.last_close_dates[pair[1]]
        /\ call.close_date < call.last_close_dates[pair[2]]
        /\ call.positions0[pair] = -1
        /\ Inside(call.spreads[pair], RNeg(stop_loss[pair]),
                  RNeg(threshold[pair]))
        /\ DecisionsOf(pair) = << <<pair, 0>> >>
        /\ positions[pair] = 0

\* C6.  Missing price: when the close price of either leg is NaN the spread
\* of the pair is NaN, and a live pair with a NaN spread emits no decision
\* and keeps its position.
C6_MissingPrice ==
    Decided =>
        \A pair \in PairSet :
            /\ (call.close_prices[pair[1]].nan
                \/ call.close_prices[pair[2]].nan) =>
                    IsNaN(call.spreads[pair])
            /\ (Live(pair) /\ IsNaN(call.spreads[pair])) =>
                    /\ DecisionsOf(pair) = << >>
                    /\ positions[pair] = call.positions0[pair]

\* C6 witness: a live LONG pair whose second leg has no close price keeps
\* its position.
C6_Witness ==
    /\ Decided
    /\ \E pair \in PairSet :
        /\ Live(pair)
        /\ ~call.close_prices[pair[1]].nan
        /\ call.close_prices[pair[2]].nan
        /\ call.positions0[pair] = 1
        /\ positions[pair] = 1
        /\ DecisionsOf(pair) = << >>

\* C7.  Decision ordering: every decision of the returned list concerns a
\* pair whose position the call changed, and the decisions follow the order
\* of the pair list given at construction (so the decisions of one pair are
\* contiguous and none of a later pair precedes one of an earlier pair).
C7_DecisionOrder ==
    Decided =>
        LET ds == call.decisions
        IN  /\ \A i \in 1..Len(ds) :
                    positions[ds[i][1]] # call.positions0[ds[i][1]]
            /\ \A i \in 1..Len(ds), j \in 1..Len(ds) :
                    i < j => PairIndex(ds[i][1]) <= PairIndex(ds[j][1])

\* C7 witness: one call returns two decisions for the first pair followed
\* by a decision for the second pair.
C7_Witness ==
    /\ Decided
    /\ Len(call.decisions) = 3
    /\ call.decisions[1][1] = pairs[1]
    /\ call.decisions[2][1] = pairs[1]
    /\ call.decisions[3][1] = pairs[2]

(* =================== properties: the execution translator ============== *)

\* The state right after a call of trade_helper.
Traded == call.op = "trade_helper"

\* self.quantities immediately before the k-th decision of the call.
QuantitiesBefore(k) == IF k = 1 THEN call.quantities0 ELSE call.qtrace[k - 1]

\* self.quantities immediately after the k-th decision of the call.
QuantitiesAfter(k) == call.qtrace[k]

\* The two orders emitted for the k-th decision sit at 2k-1 and 2k.
OrdersOf(k) == <<call.trades[2 * k - 1], call.trades[2 * k]>>

\* C8.  Exit sizing: every exit decision (pair, 0) of the list emits the
\* orders (leg1, -q1) and (leg2, -q2), where (q1, q2) are the pair's
\* recorded quantities immediately before that decision, and the recorded
\* quantities are exactly (0, 0) immediately after it.
C8_ExitSizing ==
    Traded =>
        \A k \in 1..Len(call.decisions) :
            LET pair == call.decisions[k][1]
                q == QuantitiesBefore(k)[pair]
            IN  call.decisions[k][2] = 0 =>
                    /\ Len(call.trades) >= 2 * k
                    /\ OrdersOf(k) = << <<pair[1], RNeg(q[1])>>,
                                        <<pair[2], RNeg(q[2])>> >>
                    /\ QuantitiesAfter(k)[pair] = <<Zero, Zero>>

\* C8 witness: a list that opens a pair and closes it again; the exit
\* negates the quantities the entry has just recorded.
C8_Witness ==
    /\ Traded
    /\ Len(call.decisions) = 2
    /\ call.decisions[1][1] = call.decisions[2][1]
    /\ call.decisions[1][2] = 1
    /\ call.decisions[2][2] = 0
    /\ call.quantities0[call.decisions[1][1]] = <<Zero, Zero>>
    /\ call.trades[3][2] = RNeg(call.trades[1][2])
    /\ call.trades[3][2] # Zero
    /\ quantities[call.decisions[1][1]] = <<Zero, Zero>>

\* The orders of the k-th decision, an entry (pair, p), are sized with the
\* coefficient c: quantity1 * open(leg1) * (1 + c) = p * dollar_per_trade and
\* quantity2 * open(leg2) * (1 + c) = -p * c * dollar_per_trade, that is
\* ratio1 = 1/(1+c) and ratio2 = c/(1+c); and both are recorded as the
\* pair's quantities.
EntrySizedWith(k, c) ==
    LET pair == call.decisions[k][1]
        p == Rat(call.decisions[k][2])
        o == OrdersOf(k)
        open1 == call.open_prices[pair[1]]
        open2 == call.open_prices[pair[2]]
    IN  /\ Len(call.trades) >= 2 * k
        /\ o[1][1] = pair[1]
        /\ o[2][1] = pair[2]
        /\ RMul(RMul(o[1][2], open1), RAdd(One, c)) = RMul(p, dollar_per_trade)
        /\ RMul(RMul(o[2][2], open2), RAdd(One, c)) =
               RNeg(RMul(RMul(p, c), dollar_per_trade))
        /\ QuantitiesAfter(k)[pair] = <<o[1][2], o[2][2]>>

\* C9 as stated.  Entry sizing: the leg ratios of an entry are computed from
\* the pair's beta, the constant term of the spread.
C9_Original ==
    Traded =>
        \A k \in 1..Len(call.decisions) :
            call.decisions[k][2] # 0 =>
                EntrySizedWith(k, OLS_coeff[call.decisions[k][1]][2])

\* C9, amended.  Entry sizing: the leg ratios of an entry are computed from
\* the pair's alpha, the coefficient that multiplies ln(price(leg2)) in the
\* spread: ratio1 = 1/(1+alpha), ratio2 = alpha/(1+alpha); the orders are
\* (leg1, p*ratio1*dollar_per_trade/open(leg1)) and
\* (leg2, -p*ratio2*dollar_per_trade/open(leg2)), and they are recorded as
\* the pair's new quantities.
C9_EntrySizing ==
    Traded =>
        \A k \in 1..Len(call.decisions) :
            call.decisions[k][2] # 0 =>
                EntrySizedWith(k, OLS_coeff[call.decisions[k][1]][1])

\* C9 witness: a short entry of a pair with alpha = 2, beta = 1 at open
\* prices 2 and 1 has been sized: -(1/3)*15/2 and (2/3)*15/1.
C9_Witness ==
    /\ Traded
    /\ \E pair \in PairSet :
        /\ OLS_coeff[pair] = <<Rat(2), Rat(1)>>
        /\ call.decisions = << <<pair, -1>> >>
        /\ call.open_prices[pair[1]] = Rat(2)
        /\ call.open_prices[pair[2]] = Rat(1)
        /\ call.trades = << <<pair[1], Frac(-5, 2)>>, <<pair[2], Rat(10)>> >>
        /\ quantities[pair] = <<Frac(-5, 2), Rat(10)>>

\* C10.  Order ordering: the call emits exactly two orders per decision, for
\* leg1 then leg2 of the decision's pair, in the order of the decisions; when
\* an exit of a pair is directly followed by an entry of the same pair, the
\* two orders that unwind the old quantities precede the two that open the
\* new ones.
C10_OrderOrder ==
    Traded =>
        LET ds == call.decisions
        IN  /\ Len(call.trades) = 2 * Len(ds)
            /\ \A k \in 1..Len(ds) :
                    /\ call.trades[2 * k - 1][1] = ds[k][1][1]
                    /\ call.trades[2 * k][1] = ds[k][1][2]
            /\ \A k \in 1..(Len(ds) - 1) :
                    (ds[k][2] = 0 /\ ds[k + 1][2] # 0 /\ ds[k + 1][1] = ds[k][1]) =>
                        LET pair == ds[k][1]
                            old == QuantitiesBefore(k)[pair]
                            new == QuantitiesAfter(k + 1)[pair]
                        IN  /\ call.trades[2 * k - 1][2] = RNeg(old[1])
                            /\ call.trades[2 * k][2] = RNeg(old[2])
                            /\ call.trades[2 * k + 1][2] = new[1]
                            /\ call.trades[2 * k + 2][2] = new[2]

\* C10 witness: a LONG pair is closed and re-opened SHORT by one list; the
\* four orders are the two unwinding ones, then the two opening ones.
C10_Witness ==
    /\ Traded
    /\ \E pair \in PairSet :
        /\ call.decisions = << <<pair, 0>>, <<pair, -1>> >>
        /\ RGt(call.quantities0[pair][1], Zero)
        /\ Len(call.trades) = 4
        /\ RLt(call.trades[1][2], Zero)
        /\ RGt(call.trades[2][2], Zero)
        /\ RLt(call.trades[3][2], Zero)
        /\ RGt(call.trades[4][2], Zero)
        /\ call.trades[1][2] # call.trades[3][2]

(* ===================== properties: the account's date ================== *)

\* The state right after a call of update_date.
Advanced == call.op = "update_date"

\* C11.  Backward dates are rejected: update_date with a date earlier than
\* the account's current date raises the date-order error and leaves the
\* date and every other attribute of the account unchanged; so no call of
\* update_date, failing or not, ever moves the date backwards.
C11_BackwardRejected ==
    Advanced =>
        /\ call.date < call.account0.date =>
                /\ call.raised = DateOrderError
                /\ Acct = call.account0
        /\ date >= call.account0.date

\* C11 witness: an account that has traded and has been marked to market on
\* a later day refuses to go back to a trading day.
C11_Witness ==
    /\ Advanced
    /\ call.date < call.account0.date
    /\ IsTradingDay(call.date)
    /\ call.raised = DateOrderError
    /\ date = call.account0.date
    /\ transaction_history # << >>
    /\ capital_history # << >>

\* C12 as stated.  Non-trading days are rejected: update_date with a date
\* that is not a trading day raises the non-trading-day error and leaves the
\* date unchanged.
C12_Original ==
    (Advanced /\ ~IsTradingDay(call.date)) =>
        /\ call.raised = NotTradingDayError
        /\ date = call.account0.date

\* C12, amended.  Non-trading days are rejected: update_date with a date
\* that is not a trading day and is not earlier than the current date raises
\* the non-trading-day error and leaves the date (and the rest of the
\* account) unchanged, also when the date is later than the current date; a
\* non-trading day earlier than the current date raises the date-order error
\* instead, the date unchanged as well.
C12_NonTradingRejected ==
    (Advanced /\ ~IsTradingDay(call.date)) =>
        /\ call.raised = IF call.date < call.account0.date
                         THEN DateOrderError
                         ELSE NotTradingDayError
        /\ Acct = call.account0

\* C12 witness: a date later than the current date is refused because it is
\* not a trading day.
C12_Witness ==
    /\ Advanced
    /\ ~IsTradingDay(call.date)
    /\ call.date > call.account0.date
    /\ call.raised = NotTradingDayError
    /\ date = call.account0.date

\* C13 as stated.  In every reachable state of the account, the state right
\* after construction included, the current date is a trading day.
C13_DateIsTradingDay == IsTradingDay(date)

\* C14.  Idempotence of update_date: a second call of update_date with the
\* date of the call just before it ends as the first did (accepted when the
\* first was accepted) and leaves the account (date, cash, holdings and the
\* three histories) exactly as the first call left it.
C14_AdvanceIdempotent ==
    (Advanced /\ call.previous # Idle) =>
        /\ call.raised = call.previous.raised
        /\ Acct = call.account0

\* C14 witness: an account with rows in its three histories has moved
\* forward to a date and has been moved to that date again; both calls were
\* accepted.
C14_Witness ==
    /\ Advanced
    /\ call.previous # Idle
    /\ call.previous.date0 < call.date
    /\ call.previous.raised = NoError
    /\ call.raised = NoError
    /\ date = call.date
    /\ transaction_history # << >>
    /\ capital_history # << >>
    /\ asset_history # << >>

(* ========================= properties: the ledger ====================== *)

\* The state right after a call of make_transaction.
Transacted == call.op = "make_transaction"

\* The state right after a call of liquidate.
Liquidated == call.op = "liquidate"

\* The instrument has an open price on the day: a row, and not NaN.
Priced(PERMNO, day) ==
    /\ DlyOpen(PERMNO, day) # << >>
    /\ ~IsNaN(DlyOpen(PERMNO, day)[1])

\* The open price of a priced instrument on the day.
PriceOn(PERMNO, day) == DlyOpen(PERMNO, day)[1]

\* The sum of quantity * price over the first k orders of the list.
RECURSIVE Cost(_, _, _)
Cost(orders, day, k) ==
    IF k = 0
    THEN Zero
    ELSE RAdd(Cost(orders, day, k - 1),
              RMul(orders[k][2], PriceOn(orders[k][1], day)))

\* The quantity the first k orders of the list order of the instrument.
RECURSIVE Ordered(_, _, _)
Ordered(orders, PERMNO, k) ==
    IF k = 0
    THEN Zero
    ELSE RAdd(Ordered(orders, PERMNO, k - 1),
              IF orders[k][1] = PERMNO THEN orders[k][2] ELSE Zero)

\* The transaction rows of the first k orders of the list, in order.
Rows(orders, day, k) ==
    [i \in 1..k |-> [timestamp |-> day,
                     PERMNO |-> orders[i][1],
                     quantity |-> orders[i][2],
                     price |-> PriceOn(orders[i][1], day)]]

\* The quantity held of the instrument, 0 when it is not in the holdings.
HoldingOf(held, PERMNO) ==
    IF \E i \in 1..Len(held) : held[i][1] = PERMNO
    THEN LET i == CHOOSE j \in 1..Len(held) : held[j][1] = PERMNO
         IN  held[i][2]
    ELSE Zero

\* The account is the account before the call with exactly the first k
\* orders of the batch applied: cash, holdings and transaction log; nothing
\* else has changed.
AppliedFirst(k) ==
    LET a0 == call.account0
        orders == call.transactions
    IN  /\ buying_power = RSub(a0.buying_power, Cost(orders, a0.date, k))
        /\ transaction_history =
               a0.transaction_history \o Rows(orders, a0.date, k)
        /\ \A PERMNO \in PERMNOs :
               HoldingOf(assets, PERMNO) =
                   RAdd(HoldingOf(a0.assets, PERMNO),
                        Ordered(orders, PERMNO, k))
        /\ date = a0.date
        /\ capital = a0.capital
        /\ capital_history = a0.capital_history
        /\ asset_history = a0.asset_history

\* C15.  Effect of make_transaction on success: every order (instrument, q),
\* priced at the instrument's open price p of the account's current date,
\* takes q*p from the cash, adds q to the instrument's holding (an absent
\* holding counting as 0) and appends the row (date, instrument, q, p); after
\* the batch the cash is the old cash less the sum of the q*p, and the log
\* has grown by one row per order, in the order of the batch.
C15_TransactionEffect ==
    (Transacted /\ call.raised = NoError) =>
        AppliedFirst(Len(call.transactions))

\* C15 witness: a batch of two orders has been applied to an account that
\* had traded before; the first order adds to a holding, the second creates
\* one.
C15_Witness ==
    /\ Transacted
    /\ call.raised = NoError
    /\ Len(call.transactions) = 2
    /\ call.transactions[1][2] # Zero
    /\ call.transactions[2][2] # Zero
    /\ HoldingOf(call.account0.assets, call.transactions[1][1]) # Zero
    /\ HoldingOf(call.account0.assets, call.transactions[2][1]) = Zero
    /\ HoldingOf(assets, call.transactions[2][1]) = call.transactions[2][2]
    /\ Len(transaction_history) =
           Len(call.account0.transaction_history) + 2
    /\ buying_power # call.account0.buying_power

\* C16 as stated.  The holdings never contain a zero entry: every instrument
\* present in the holdings has a non-zero quantity.
C16_NoZeroHolding == \A i \in 1..Len(assets) : assets[i][2] # Zero

\* The value quantity * price of the first k entries of the holdings.
RECURSIVE Value(_, _, _)
Value(held, day, k) ==
    IF k = 0
    THEN Zero
    ELSE RAdd(Value(held, day, k - 1),
              RMul(held[k][2], PriceOn(held[k][1], day)))

\* The cash the call leaves when every order of the batch (every holding,
\* for liquidate) has been settled and nothing is clamped.
SettledCash ==
    LET a0 == call.account0
    IN  IF Transacted
        THEN RSub(a0.buying_power,
                  Cost(call.transactions, a0.date, Len(call.transactions)))
        ELSE RAdd(a0.buying_power, Value(a0.assets, a0.date, Len(a0.assets)))

\* The call was refused for negative cash.
Refused ==
    call.raised \in {NegativeTransactionError, NegativeLiquidationError}

\* C17.  Negative-cash guard: with negative_balance false, make_transaction
\* and liquidate raise the negative-cash error exactly when the cash is
\* negative after the whole batch has been applied (a batch whose running
\* cash dips below zero and ends non-negative succeeds); so a successful call
\* leaves cash >= 0, and the cash is never clamped.  With negative_balance
\* true neither raises the negative-cash error.
C17_NegativeCashGuard ==
    (Transacted \/ Liquidated) =>
        /\ call.negative_balance => ~Refused
        /\ call.raised # PriceError =>
               /\ buying_power = SettledCash
               /\ ~call.negative_balance =>
                      (Refused <=> RLt(SettledCash, Zero))
        /\ (call.raised = NoError /\ ~call.negative_balance) =>
               RGe(buying_power, Zero)
        /\ Refused =>
               call.raised = IF Transacted
                             THEN NegativeTransactionError
                             ELSE NegativeLiquidationError

\* C17 witness: with negative_balance false, a batch of two orders whose
\* first order takes the cash below zero and whose second brings it back to
\* exactly zero has succeeded.
C17_Witness ==
    /\ Transacted
    /\ ~call.negative_balance
    /\ call.raised = NoError
    /\ Len(call.transactions) = 2
    /\ RLt(RSub(call.account0.buying_power,
                Cost(call.transactions, call.account0.date, 1)), Zero)
    /\ buying_power = Zero

\* C18.  No rollback on negative cash: when make_transaction raises the
\* negative-cash error nothing is undone: the cash (negative), the holdings
\* and the transaction log reflect every order of the batch, exactly as
\* after the same batch applied with negative_balance true.
C18_NoRollback ==
    (Transacted /\ call.raised = NegativeTransactionError) =>
        /\ AppliedFirst(Len(call.transactions))
        /\ RLt(buying_power, Zero)
        /\ make_transaction(call.account0, call.transactions, TRUE) =
               Outcome(Acct, NoError)

\* C18 witness: a refused batch of two orders for two instruments has left
\* both holdings, both rows and a negative cash.
C18_Witness ==
    /\ Transacted
    /\ call.raised = NegativeTransactionError
    /\ Len(call.transactions) = 2
    /\ call.transactions[1][1] # call.transactions[2][1]
    /\ Len(assets) = Len(call.account0.assets) + 2
    /\ Len(transaction_history) =
           Len(call.account0.transaction_history) + 2
    /\ RLt(buying_power, Zero)
    /\ RGe(call.account0.buying_power, Zero)

\* The places of the orders of the batch whose instrument has no open price
\* on the account's date.
Unpriced ==
    {k \in 1..Len(call.transactions) :
        ~Priced(call.transactions[k][1], call.account0.date)}

\* The least element of a non-empty set of numbers.
Least(S) == CHOOSE k \in S : \A j \in S : k <= j

\* C19.  Price unavailable in a batch: if the k-th order is the first one of
\* the batch whose instrument has no open price (no row, or NaN) on the
\* account's date, make_transaction raises the price error; the orders
\* 1..k-1 stay applied (cash, holdings, rows) and the order k and all later
\* orders have no effect on cash, holdings or the log.
C19_PriceUnavailable ==
    Transacted =>
        /\ Unpriced # {} <=> call.raised = PriceError
        /\ Unpriced # {} => AppliedFirst(Least(Unpriced) - 1)

\* C19 witness: the second of two orders has a NaN open price; the first
\* order, a purchase, is applied and the second is not.
C19_Witness ==
    /\ Transacted
    /\ call.raised = PriceError
    /\ Len(call.transactions) = 2
    /\ Unpriced = {2}
    /\ DlyOpen(call.transactions[2][1], date) = << NaN >>
    /\ call.transactions[1][2] = One
    /\ call.transactions[2][2] # Zero
    /\ Len(transaction_history) =
           Len(call.account0.transaction_history) + 1
    /\ buying_power # call.account0.buying_power

\* C20.  Effect of liquidate on success: for the holdings H at the prices of
\* the current date, the cash grows by the sum over H of quantity * price,
\* one row (date, instrument, -quantity, price) is appended per held
\* instrument, in the order of H, and the holdings are empty afterwards; the
\* result is that of make_transaction applied to the batch that negates
\* every holding.
C20_LiquidateEffect ==
    (Liquidated /\ call.raised = NoError) =>
        LET a0 == call.account0
            H == a0.assets
            batch == [i \in 1..Len(H) |-> <<H[i][1], RNeg(H[i][2])>>]
        IN  /\ buying_power =
                   RAdd(a0.buying_power, Value(H, a0.date, Len(H)))
            /\ transaction_history =
                   a0.transaction_history \o Rows(batch, a0.date, Len(H))
            /\ assets = << >>
            /\ date = a0.date
            /\ capital = a0.capital
            /\ capital_history = a0.capital_history
            /\ asset_history = a0.asset_history
            /\ make_transaction(a0, batch, call.negative_balance) =
                   Outcome(Acct, NoError)

\* C20 witness: an account long one instrument and short another has been
\* liquidated: two rows, the sale first, and no holdings left.
C20_Witness ==
    /\ Liquidated
    /\ call.raised = NoError
    /\ Len(call.account0.assets) = 2
    /\ RGt(call.account0.assets[1][2], Zero)
    /\ RLt(call.account0.assets[2][2], Zero)
    /\ Len(transaction_history) =
           Len(call.account0.transaction_history) + 2
    /\ transaction_history[Len(transaction_history)].quantity = One
    /\ assets = << >>

(* ====================== properties: the mark to market ================= *)

\* The state right after a call of update_capital.
Marked == call.op = "update_capital"

\* The state right after a call of a method of the account.
AccountCalled ==
    call.op \in {"update_date", "make_transaction", "liquidate",
                 "update_capital"}

\* The snapshot rows of the first k entries of the holdings, in order.
Snapshots(held, day, k) ==
    [i \in 1..k |-> [timestamp |-> day,
                     PERMNO |-> held[i][1],
                     quantity |-> held[i][2],
                     value |-> RMul(held[i][2], PriceOn(held[i][1], day))]]

\* C21.  Effect of update_capital: a successful call sets capital to cash
\* plus the sum over the holdings of quantity * price at the current date,
\* appends exactly one capital row (date, capital), and appends one snapshot
\* row per held instrument, in order, then one CASH row whose value is the
\* cash; cash, holdings, date and transaction log stay.  No other call of
\* the account, and no failing update_capital, changes the capital log: its
\* length counts the successful calls of update_capital.
C21_CapitalEffect ==
    AccountCalled =>
        LET a0 == call.account0
            H == a0.assets
        IN  IF Marked /\ call.raised = NoError
            THEN /\ capital =
                        RAdd(a0.buying_power, Value(H, a0.date, Len(H)))
                 /\ capital_history =
                        Append(a0.capital_history,
                               [timestamp |-> a0.date, capital |-> capital])
                 /\ asset_history =
                        a0.asset_history \o Snapshots(H, a0.date, Len(H))
                            \o << [timestamp |-> a0.date, PERMNO |-> CASH,
                                   quantity |-> One,
                                   value |-> a0.buying_power] >>
                 /\ buying_power = a0.buying_power
                 /\ assets = H
                 /\ date = a0.date
                 /\ transaction_history = a0.transaction_history
            ELSE /\ capital_history = a0.capital_history
                 /\ capital = a0.capital

\* C21 witness: an account holding an instrument whose price has moved since
\* the purchase has been marked to market: two snapshot rows, one capital
\* row, and a capital that differs from the cash and from the start.
C21_Witness ==
    /\ Marked
    /\ call.raised = NoError
    /\ Len(call.account0.assets) = 1
    /\ call.account0.assets[1][2] # Zero
    /\ Len(asset_history) = Len(call.account0.asset_history) + 2
    /\ Len(capital_history) = 1
    /\ capital # buying_power
    /\ capital # call.account0.capital

(* ========================= properties: the round trip ================== *)

\* C22.  Round trip: from any account and pair state, sizing an entry of a
\* pair, applying its orders, sizing the exit of the pair and applying its
\* orders at the same prices leaves the cash at its value before the entry
\* and the quantity held of every instrument, the two legs included, at its
\* value before the entry.
C22_RoundTrip ==
    frame.pc = "exit applied" =>
        /\ buying_power = frame.account0.buying_power
        /\ \A PERMNO \in PERMNOs :
               HoldingOf(assets, PERMNO) =
                   HoldingOf(frame.account0.assets, PERMNO)

\* C22 witness: a pair whose legs were both held, with other quantities
\* recorded for it, has been entered and exited: four more rows in the
\* transaction log, the exit orders negate the entry orders, and the cash
\* and the holdings are those the caller started from.
C22_Witness ==
    /\ frame.pc = "exit applied"
    /\ call.raised = NoError
    /\ Len(transaction_history) =
           Len(frame.account0.transaction_history) + 4
    /\ HoldingOf(frame.account0.assets, frame.pair[1]) # Zero
    /\ HoldingOf(frame.account0.assets, frame.pair[2]) # Zero
    /\ frame.quantities0[frame.pair] # <<Zero, Zero>>
    /\ frame.quantities0[frame.pair] # <<frame.entry[1][2], frame.entry[2][2]>>
    /\ call.transactions[1][2] = RNeg(frame.entry[1][2])
    /\ frame.entry[1][2] # Zero
    /\ buying_power = frame.account0.buying_power
    /\ assets = frame.account0.assets

(* ========================= properties: the reports ===================== *)

\* The state right after a call of calc_total_return.
Returned == call.op = "calc_total_return"

\* C23.  calc_total_return returns (last capital - first capital) / first
\* capital over the recorded capital history, and raises an error, returning
\* no value, when the capital history is empty; it changes nothing in the
\* account.
C23_TotalReturn ==
    Returned =>
        LET n == Len(capital_history)
            first == capital_history[1].capital
            last == capital_history[n].capital
        IN  /\ Acct = call.account0
            /\ IF n = 0
               THEN call.raised # NoError
               ELSE /\ call.raised = NoError
                    /\ IF first = Zero
                       THEN IsNaN(call.value)
                       ELSE RMul(call.value, first) = RSub(last, first)

\* C23 witness: the total return of an account marked twice, whose capital
\* has grown between the marks, has been computed and is positive.
C23_Witness ==
    /\ Returned
    /\ call.raised = NoError
    /\ Len(capital_history) = 2
    /\ RGt(capital_history[2].capital, capital_history[1].capital)
    /\ RGt(call.value, Zero)

\* The list s is the beginning of the list t: t keeps every row of s, at its
\* place and unchanged.
IsPrefix(s, t) == Len(s) <= Len(t) /\ SubSeq(t, 1, Len(s)) = s

\* The state right after a call of one of the exports.
Exported ==
    call.op \in {"get_transaction_history", "get_capital_history",
                 "get_asset_history"}

\* C24.  The three histories are append-only: after any call of the account
\* (update_date, make_transaction, liquidate, update_capital, the exports,
\* calc_total_return; failing calls included) every row recorded before the
\* call is still there, at its place and unchanged; and an export changes
\* nothing and returns one line per recorded row, in the order recorded.
C24_AppendOnly ==
    call # Idle =>
        LET a0 == call.account0
        IN  /\ IsPrefix(a0.transaction_history, transaction_history)
            /\ IsPrefix(a0.capital_history, capital_history)
            /\ IsPrefix(a0.asset_history, asset_history)
            /\ Exported => Acct = a0
            /\ call.op = "get_transaction_history" =>
                   /\ Len(call.df.values) = Len(transaction_history)
                   /\ \A i \in 1..Len(transaction_history) :
                          LET row == transaction_history[i]
                          IN  call.df.values[i] =
                                  <<row.timestamp, row.PERMNO, row.quantity,
                                    row.price>>
            /\ call.op = "get_capital_history" =>
                   /\ Len(call.df.values) = Len(capital_history)
                   /\ \A i \in 1..Len(capital_history) :
                          LET row == capital_history[i]
                          IN  call.df.values[i] =
                                  <<row.timestamp, row.capital>>
            /\ call.op = "get_asset_history" =>
                   /\ Len(call.df.values) = Len(asset_history)
                   /\ \A i \in 1..Len(asset_history) :
                          LET row == asset_history[i]
                          IN  call.df.values[i] =
                                  <<row.timestamp, row.PERMNO, row.quantity,
                                    row.value>>

\* C24 witness: a transaction log of three rows, recorded on two days, has
\* been exported: three lines, the first of the first day and the last of
\* the later day.
C24_Witness ==
    /\ call.op = "get_transaction_history"
    /\ Len(transaction_history) = 3
    /\ Len(call.df.values) = 3
    /\ call.df.values[1][1] < call.df.values[3][1]
    /\ call.df.values[1] # call.df.values[2]

(* ================== properties: the last observed date ================= *)

\* The day of the last row of the instrument.
FinalRecorded(PERMNO) == Index(PERMNO)[Len(Index(PERMNO))]

\* The day of the row before the last row of the instrument.
BeforeFinalRecorded(PERMNO) == Index(PERMNO)[Len(Index(PERMNO)) - 1]

ExpectedLog(trading_days) ==
    LET n == Len(trading_days)
    IN  [m \in 1..(3 * (n - 1)) |->
            LET j == 2 + ((m - 1) \div 3)
                op == CASE (m - 1) % 3 = 0 -> "update_date"
                        [] (m - 1) % 3 = 1 ->
                               IF j = n THEN "liquidate"
                                        ELSE "make_transaction"
                        [] OTHER -> "update_capital"
            IN  <<op, trading_days[j]>>]

\* The driver has gone through the whole window.
WindowDone == frame.pc \in {"report", "done"}

\* C25.  Per-day protocol of the driver: over a window of n >= 2 trading
\* days the calls made on the account are, for every day after the first
\* and in day order, update_date, then make_transaction (liquidate on the
\* last day), then update_capital, each once and each at that day's date;
\* when the window is done the capital history has exactly n - 1 rows, the
\* k-th dated the (k+1)-th trading day, so with strictly increasing dates.
C25_DailyProtocol ==
    (frame # NoFrame /\ Len(frame.trading_days) >= 2) =>
        LET D == frame.trading_days
            n == Len(D)
        IN  /\ IsPrefix(frame.log, ExpectedLog(D))
            /\ \A k \in 1..Len(capital_history) :
                   capital_history[k].timestamp = D[k + 1]
            /\ \A k \in 1..(Len(capital_history) - 1) :
                   capital_history[k].timestamp <
                       capital_history[k + 1].timestamp
            /\ WindowDone =>
                   /\ frame.log = ExpectedLog(D)
                   /\ Len(capital_history) = n - 1

\* C25 witness: the driver has gone through a window of six trading days in
\* which orders were applied: five capital rows, the last one dated the last
\* day.
C25_Witness ==
    /\ frame # NoFrame
    /\ frame.pc = "done"
    /\ Len(frame.trading_days) = 6
    /\ Len(capital_history) = 5
    /\ capital_history[5].timestamp = frame.trading_days[6]
    /\ Len(transaction_history) >= 4

\* The state right after the driver has handed the orders of a day of the
\* loop to make_transaction.
DriverApplied ==
    /\ frame # NoFrame
    /\ Transacted
    /\ frame.pc \in {"mark", "crashed"}

\* C26.  Data flow of the driver: the orders applied to the account on
\* trading day t are exactly those sized, with day t's opening prices, from
\* the decisions computed from the closes of the trading day before t; every
\* transaction row they produce is dated t, strictly later than the close
\* date that produced its decision, and no decision is applied on the day
\* whose close produced it.
C26_DataFlow ==
    DriverApplied =>
        LET D == frame.trading_days
            t == D[frame.i]
            a0 == call.account0
        IN  /\ a0.date = t
            /\ call.transactions = frame.sized.trades
            /\ frame.sized.open_prices = OpensOn(t)
            /\ frame.sized.decisions = frame.decided.decisions
            /\ frame.decided.close_date = D[frame.i - 1]
            /\ frame.decided.close_prices = ClosesOn(D[frame.i - 1])
            /\ frame.decided.close_date < t
            /\ \A k \in (Len(a0.transaction_history) + 1)
                            ..Len(transaction_history) :
                   /\ transaction_history[k].timestamp = t
                   /\ transaction_history[k].timestamp >
                          frame.decided.close_date

\* C26 witness: on day 7 the driver has applied the orders of an exit
\* decided from the closes of day 5 and sized on day 7: two rows dated 7.
C26_Witness ==
    /\ DriverApplied
    /\ call.raised = NoError
    /\ frame.decided.close_date = 5
    /\ frame.trading_days[frame.i] = 7
    /\ frame.decided.decisions = << << <<1, 2>>, 0 >> >>
    /\ Len(transaction_history) =
           Len(call.account0.transaction_history) + 2
    /\ transaction_history[Len(transaction_history)].timestamp = 7

(* ==================== properties: the refused liquidation ============== *)

\* C28.  liquidate with negative_balance false that ends with negative cash
\* raises the negative-cash error and is not rolled back: afterwards the
\* holdings are empty, one liquidating row per instrument held has been
\* recorded, and the cash holds the negative value reached by the
\* liquidation.
C28_LiquidateNoRollback ==
    (Liquidated /\ call.raised = NegativeLiquidationError) =>
        LET a0 == call.account0
            H == a0.assets
            batch == [i \in 1..Len(H) |-> <<H[i][1], RNeg(H[i][2])>>]
        IN  /\ ~call.negative_balance
            /\ assets = << >>
            /\ transaction_history =
                   a0.transaction_history \o Rows(batch, a0.date, Len(H))
            /\ buying_power =
                   RAdd(a0.buying_power, Value(H, a0.date, Len(H)))
            /\ RLt(buying_power, Zero)
            /\ date = a0.date
            /\ capital = a0.capital
            /\ capital_history = a0.capital_history
            /\ asset_history = a0.asset_history

\* C28 witness: an account short one instrument whose price has risen has
\* been liquidated without the flag: the call raised, the buy-back row is
\* recorded, nothing is held and the cash is negative where it was positive.
C28_Witness ==
    /\ Liquidated
    /\ call.raised = NegativeLiquidationError
    /\ Len(call.account0.assets) = 1
    /\ RLt(call.account0.assets[1][2], Zero)
    /\ RGt(call.account0.buying_power, Zero)
    /\ assets = << >>
    /\ Len(transaction_history) =
           Len(call.account0.transaction_history) + 1
    /\ RGt(transaction_history[Len(transaction_history)].quantity, Zero)
    /\ RLt(buying_power, Zero)

(* ===================== properties: the pair state ====================== *)

\* The pair is named by one of the decisions of the list.
Named(pair, decisions) ==
    \E k \in 1..Len(decisions) : decisions[k][1] = pair

\* C29.  Frame of the pair state: every pair starts flat with quantities
\* (0, 0); a call of make_decisions_helper changes no recorded quantity, and
\* changes the position of a pair only if it returns a decision for that
\* pair; a call of trade_helper changes no position, and changes the
\* recorded quantities only of pairs named in the decisions it is given.
C29_PairStateFrame ==
    /\ \A pair \in PairSet :
           positions[pair] = 0 /\ quantities[pair] = <<Zero, Zero>>
    /\ [][/\ call'.op = "make_decisions_helper" =>
                 /\ quantities' = quantities
                 /\ \A pair \in PairSet :
                        positions'[pair] # positions[pair] =>
                            Named(pair, call'.decisions)
          /\ call'.op = "trade_helper" =>
                 /\ positions' = positions
                 /\ \A pair \in PairSet :
                        quantities'[pair] # quantities[pair] =>
                            Named(pair, call'.decisions)
          /\ call' = Idle =>
                 /\ positions' = positions
                 /\ quantities' = quantities]_vars

\* C29 witness: while pair (1, 2) is long and pair (3, 2) is short with
\* quantities recorded for it, trade_helper has sized an entry of pair
\* (1, 2) alone: its quantities are recorded, those of pair (3, 2) and the
\* positions are as before.
C29_Witness ==
    /\ Traded
    /\ positions[<<1, 2>>] = 1
    /\ positions[<<3, 2>>] = -1
    /\ call.decisions = << << <<1, 2>>, 1 >> >>
    /\ call.quantities0[<<3, 2>>] # <<Zero, Zero>>
    /\ quantities[<<3, 2>>] = call.quantities0[<<3, 2>>]
    /\ quantities[<<1, 2>>] # call.quantities0[<<1, 2>>]
    /\ positions = call.positions0

(* =================== properties: the decision stream =================== *)

\* The targets of the decisions concerning the pair in the caller's list,
\* from the last one before the call on: that one, if any, then those of
\* the call.
StreamTail(pair) ==
    frame.last0[pair] \o
        [k \in 1..Len(DecisionsOf(pair)) |-> DecisionsOf(pair)[k][2]]

\* C30.  Alternation of a pair's decision stream: over any sequence of calls
\* of make_decisions_helper the concatenated decisions concerning one pair
\* start with an entry (+1 or -1) and strictly alternate entry and exit (0):
\* never two entries without an exit between them, never two exits in a
\* row; and one call returns at most two decisions for a pair.
C30_Alternation ==
    (Decided /\ frame # NoFrame) =>
        \A pair \in PairSet :
            LET s == StreamTail(pair)
            IN  /\ Len(DecisionsOf(pair)) <= 2
                /\ (frame.last0[pair] = << >> /\ s # << >>) => s[1] # 0
                /\ \A k \in 1..(Len(s) - 1) : (s[k] = 0) # (s[k + 1] = 0)
                /\ \A k \in 1..Len(s) : s[k] \in {-1, 0, 1}

\* C30 witness: a pair whose last decision was an entry long is told, in
\* one call, to exit and to enter short.
C30_Witness ==
    /\ Decided
    /\ frame # NoFrame
    /\ frame.last0[<<1, 2>>] = << 1 >>
    /\ StreamTail(<<1, 2>>) = << 1, 0, -1 >>
    /\ frame.last[<<1, 2>>] = << -1 >>

(* ========================= properties: the band ======================== *)

\* C31.  Band invariant after decide: with 0 < threshold and 0 < stop_loss,
\* after a call of make_decisions_helper in which a pair is live and its
\* spread s is not NaN, a pair left long has -stop_loss < s < 0 and a pair
\* left short has 0 < s < stop_loss: no pair is left positioned with
\* |s| >= stop_loss, and no position is entered that meets its own exit
\* condition.
C31_BandInvariant ==
    Decided =>
        \A pair \in PairSet :
            LET s == call.spreads[pair]
                sl == stop_loss[pair]
            IN  (/\ RGt(threshold[pair], Zero)
                 /\ RGt(sl, Zero)
                 /\ Live(pair)
                 /\ ~IsNaN(s)) =>
                    /\ positions[pair] = 1 => Inside(s, RNeg(sl), Zero)
                    /\ positions[pair] = -1 => Inside(s, Zero, sl)
                    /\ positions[pair] = 1 => ~ExitLong(s, sl)
                    /\ positions[pair] = -1 => ~ExitShort(s, sl)

\* C31 witness: in one call a live short pair is closed and entered long,
\* at a spread inside (-stop_loss, -threshold), while the other pair, live
\* and long, is kept at a spread inside (-threshold, 0).
C31_Witness ==
    /\ Decided
    /\ Live(<<1, 2>>)
    /\ Live(<<3, 2>>)
    /\ call.positions0[<<1, 2>>] = -1
    /\ positions[<<1, 2>>] = 1
    /\ Inside(call.spreads[<<1, 2>>], RNeg(stop_loss[<<1, 2>>]),
              RNeg(threshold[<<1, 2>>]))
    /\ call.positions0[<<3, 2>>] = 1
    /\ positions[<<3, 2>>] = 1
    /\ Inside(call.spreads[<<3, 2>>], RNeg(threshold[<<3, 2>>]), Zero)

(* ======================= properties: delisting ========================= *)

\* The decisions are all exits.
OnlyExits(ds) == \A k \in 1..Len(ds) : ds[k][2] = 0

\* C32.  Delisting is absorbing: with non-decreasing dates, once a call of
\* make_decisions_helper is made on a date at or after the last observed
\* date of one of a pair's legs, the pair is flat after that call and after
\* every later call; that call returns at most one decision for the pair,
\* an exit, and every later call returns none.
C32_DelistingAbsorbing ==
    (Decided /\ frame # NoFrame) =>
        \A pair \in frame.absorbed :
            /\ positions[pair] = 0
            /\ Len(DecisionsOf(pair)) <= 1
            /\ OnlyExits(DecisionsOf(pair))
            /\ pair \in frame.absorbed0 =>
                   /\ call.positions0[pair] = 0
                   /\ DecisionsOf(pair) = << >>

\* C32 witness: a pair that had a delisted leg at an earlier call is left
\* alone by the last call, at a spread that would open a live pair, while
\* the other pair, never delisted so far, gets a decision.
C32_Witness ==
    /\ Decided
    /\ frame # NoFrame
    /\ <<3, 2>> \in frame.absorbed0
    /\ <<1, 2>> \notin frame.absorbed
    /\ positions[<<3, 2>>] = 0
    /\ DecisionsOf(<<3, 2>>) = << >>
    /\ Inside(call.spreads[<<3, 2>>], threshold[<<3, 2>>],
              stop_loss[<<3, 2>>])
    /\ \E d \in DOMAIN call.decisions : call.decisions[d][1] = <<1, 2>>

(* =================== properties: ledger and model ====================== *)

\* The quantity the model records for the instrument as a leg of the pair
\* (zero when the instrument is no leg of it).
LegQuantity(pair, PERMNO) ==
    RAdd(IF pair[1] = PERMNO THEN quantities[pair][1] ELSE Zero,
         IF pair[2] = PERMNO THEN quantities[pair][2] ELSE Zero)

RECURSIVE RecordedQuantity(_, _)
\* The sum of the recorded leg quantities of the instrument over the first k
\* pairs.
RecordedQuantity(PERMNO, k) ==
    IF k = 0
    THEN Zero
    ELSE RAdd(RecordedQuantity(PERMNO, k - 1), LegQuantity(pairs[k], PERMNO))

\* C33.  Ledger and model agree in the driver: after each day's
\* make_transaction that succeeded, the account's holding of every
\* instrument (zero when absent) equals the sum, over the pairs that have
\* the instrument as a leg, of the quantities the model records for it, an
\* instrument shared by several pairs included.
C33_LedgerModelAgreement ==
    (DriverApplied /\ call.raised = NoError) =>
        \A PERMNO \in PERMNOs :
            HoldingOf(assets, PERMNO) = RecordedQuantity(PERMNO, Len(pairs))

\* C33 witness: after a day's orders both pairs are open, so the shared
\* instrument 2 is held for both at once.
C33_Witness ==
    /\ DriverApplied
    /\ call.raised = NoError
    /\ quantities[<<1, 2>>][2] # Zero
    /\ quantities[<<3, 2>>][2] # Zero
    /\ HoldingOf(assets, 2) # quantities[<<1, 2>>][2]
    /\ HoldingOf(assets, 2) # quantities[<<3, 2>>][2]

(* ================= properties: positions and quantities ================ *)

\* The state right after the caller has sized the decisions it just made.
Stepped == Traded /\ frame # NoFrame /\ frame.pc = "signal"

\* C34.  Position and quantity agree: when every list of decisions is sized
\* right after it is made, with positive prices, a positive
\* dollar_per_trade and a positive hedge coefficient, after each such step
\* a pair is flat iff its recorded quantities are (0, 0), long iff q1 > 0
\* and q2 < 0, and short iff q1 < 0 and q2 > 0; and an entry never
\* overwrites recorded quantities that are not (0, 0).
C34_PositionQuantity ==
    (/\ Stepped
     /\ RGt(dollar_per_trade, Zero)
     /\ \A pair \in PairSet : RGt(OLS_coeff[pair][1], Zero)
     /\ \A PERMNO \in PERMNOs : RGt(call.open_prices[PERMNO], Zero)) =>
        /\ \A pair \in PairSet :
               LET q == quantities[pair]
               IN  /\ positions[pair] = 0 <=> q = <<Zero, Zero>>
                   /\ positions[pair] = 1 <=>
                          (RGt(q[1], Zero) /\ RLt(q[2], Zero))
                   /\ positions[pair] = -1 <=>
                          (RLt(q[1], Zero) /\ RGt(q[2], Zero))
        /\ \A k \in 1..Len(call.decisions) :
               call.decisions[k][2] # 0 =>
                   QuantitiesBefore(k)[call.decisions[k][1]] = <<Zero, Zero>>

\* C34 witness: one step closes the short pair (1, 2) and opens it long,
\* the entry finding the quantities the exit has just reset, while pair
\* (3, 2) stays short with the quantities of an earlier step.
C34_Witness ==
    /\ Stepped
    /\ call.decisions = << <<<<1, 2>>, 0>>, <<<<1, 2>>, 1>> >>
    /\ RLt(call.quantities0[<<1, 2>>][1], Zero)
    /\ RGt(quantities[<<1, 2>>][1], Zero)
    /\ positions[<<1, 2>>] = 1
    /\ positions[<<3, 2>>] = -1
    /\ RGt(quantities[<<3, 2>>][2], Zero)

(* ===================== properties: capital neutrality ================== *)

\* The cash plus the holdings at the open prices of the day.
TotalValue(cash, held, day) == RAdd(cash, Value(held, day, Len(held)))

\* Every holding has an open price on the day.
AllPriced(held, day) == \A i \in 1..Len(held) : Priced(held[i][1], day)

\* C35.  Trading is capital-neutral on its day: for a make_transaction batch
\* or a liquidate that succeeds on date d, cash + sum(holding * price(d))
\* is the same right before and right after the call (the holdings before
\* it being priced on d), so no cost is charged for trading.
C35_CapitalNeutral ==
    (/\ Transacted \/ Liquidated
     /\ call.raised = NoError
     /\ AllPriced(call.account0.assets, call.account0.date)) =>
        /\ date = call.account0.date
        /\ AllPriced(assets, date)
        /\ TotalValue(buying_power, assets, date) =
               TotalValue(call.account0.buying_power, call.account0.assets,
                          call.account0.date)

\* C35 witness: a successful batch of two orders that changes a holding
\* already there and the cash, on a day whose price differs from the price
\* the holding was bought at.
C35_Witness ==
    /\ Transacted
    /\ call.raised = NoError
    /\ Len(call.transactions) = 2
    /\ call.account0.assets # << >>
    /\ AllPriced(call.account0.assets, call.account0.date)
    /\ assets # call.account0.assets
    /\ buying_power # call.account0.buying_power
    /\ \E i \in 1..Len(transaction_history) :
           /\ transaction_history[i].timestamp # date
           /\ transaction_history[i].price #
                  PriceOn(transaction_history[i].PERMNO, date)

(* =================== properties: liquidate and prices ================== *)

\* C36.  liquidate is all-or-nothing with respect to a missing price: when
\* liquidate raises because a held instrument has no price on the current
\* date, the cash, the holdings and the transaction log are as before the
\* call; in particular no instrument whose sale has been credited and
\* logged by the call is still held.
C36_LiquidateAllOrNothing ==
    (Liquidated /\ call.raised = PriceError) =>
        LET a0 == call.account0
        IN  /\ buying_power = a0.buying_power
            /\ assets = a0.assets
            /\ transaction_history = a0.transaction_history
            /\ \A k \in 1..Len(transaction_history) :
                   k > Len(a0.transaction_history) =>
                       ~HasAsset(assets, transaction_history[k].PERMNO)

(* ================== properties: delisting in the driver ================ *)

\* C37.  Delisting exits are executable in the driver: every order the
\* driver applies for a pair, entry or forced exit, is dated no later than
\* the final recorded date of both legs of the pair; so when every
\* instrument has an opening price on each trading day up to its final
\* recorded date, make_transaction does not raise the price error: it
\* raises it only for an instrument that lacks a price on a day within its
\* recorded life.
C37_DelistingExecutable ==
    DriverApplied =>
        /\ Len(call.transactions) = 2 * Len(frame.decisions)
        /\ \A k \in 1..Len(frame.decisions) :
               LET pair == frame.decisions[k][1]
               IN  /\ call.transactions[2 * k - 1][1] = pair[1]
                   /\ call.transactions[2 * k][1] = pair[2]
                   /\ date <= FinalRecorded(pair[1])
                   /\ date <= FinalRecorded(pair[2])
        /\ call.raised = PriceError =>
               \E k \in 1..Len(call.transactions) :
                   LET PERMNO == call.transactions[k][1]
                   IN  /\ date <= FinalRecorded(PERMNO)
                       /\ ~Priced(PERMNO, date)

\* C37 witness: the pair (3, 2), held when instrument 3 reaches the row
\* before its last, is closed by a forced exit whose orders are applied, and
\* priced, on the final recorded date of instrument 3.
C37_Witness ==
    /\ DriverApplied
    /\ call.raised = NoError
    /\ date = FinalRecorded(3)
    /\ frame.decided.close_date >= BeforeFinalRecorded(3)
    /\ \E k \in 1..Len(frame.decisions) :
           /\ frame.decisions[k] = <<<<3, 2>>, 0>>
           /\ call.transactions[2 * k - 1][2] # Zero
    /\ ~HasAsset(assets, 3)

(* ===================== properties: the end of a window ================= *)

\* C38.  Every window ends flat: when the driver has completed a window
\* without error its last step has moved the account to the window's last
\* trading day, liquidated and marked to market, so the holdings are empty
\* and the last capital row, dated that day, equals the cash, whichever
\* pairs the trading model still records as long or short.
C38_WindowEndsFlat ==
    WindowDone =>
        LET D == frame.trading_days
            n == Len(D)
            m == Len(capital_history)
            log == frame.log
        IN  /\ date = D[n]
            /\ assets = << >>
            /\ Len(log) >= 3
            /\ SubSeq(log, Len(log) - 2, Len(log)) =
                   << <<"update_date", D[n]>>, <<"liquidate", D[n]>>,
                      <<"update_capital", D[n]>> >>
            /\ m >= 1
            /\ capital_history[m].timestamp = D[n]
            /\ capital_history[m].capital = buying_power
            /\ capital = buying_power

\* C38 witness: a window is done with a pair still recorded as open, with
\* its quantities, after a liquidation that sold holdings on the last day.
C38_Witness ==
    /\ WindowDone
    /\ \E pair \in PairSet :
           /\ positions[pair] # 0
           /\ quantities[pair] # <<Zero, Zero>>
    /\ assets = << >>
    /\ transaction_history # << >>
    /\ transaction_history[Len(transaction_history)].timestamp = date
    /\ Len(capital_history) >= 2
    /\ capital_history[Len(capital_history)].capital #
           capital_history[Len(capital_history) - 1].capital

====
